---- MODULE Spec2Model ----
(***************************************************************************)
(* A model of pkg/destroy/openstack/openstack.go: the teardown of the      *)
(* resources of one cluster.                                               *)
(*                                                                         *)
(* The module holds several specifications over one set of variables:      *)
(*   Spec / FairSpec  ClusterUninstaller.Run: the parallel deleteRunner    *)
(*                    goroutines, the barrier and the two sequential       *)
(*                    phases;                                              *)
(*   SpecBackoff      one retry wrapper alone, with its whole history;     *)
(*   SpecFilter       filterObjects on bounded inputs;                     *)
(*   SpecTasks        the invocations of one task (a per-kind delete task, *)
(*                    clearRouterInterfaces, cleanVIPsPorts or             *)
(*                    untagPrimaryNetwork) against a provider that answers *)
(*                    each call;                                           *)
(*   SpecUnit         one object-deletion unit of deleteContainers: the    *)
(*                    bulk-delete loop over the objects of one page;       *)
(*   SpecNetwork      the invocations of deleteNetworks on one network     *)
(*                    with leftover load balancers and ports, against a    *)
(*                    provider that keeps what was not deleted;            *)
(*   SpecWorkers      the worker goroutines of deletePorts: the feeder,    *)
(*                    the workers step by step, the collector, and the     *)
(*                    next invocation on what the provider still holds;    *)
(*   SpecQueue        deleteContainers on one matching container: the      *)
(*                    pages queued on the semaphore, the units, the error  *)
(*                    channel and its collector, the delete of the         *)
(*                    container.                                           *)
(* A specification leaves the variables of the others at their idle value. *)
(***************************************************************************)
EXTENDS Integers, Sequences, FiniteSets, TLC

VARIABLES
    \* ---- Run (Spec, FairSpec)
    mainpc,      \* position of Run's own goroutine
    runner,      \* deleteRunner goroutines: name -> [pc, steps, last, werr]
    received,    \* values read from returnChannel by the barrier loop
    router,      \* deleteRouterRunner: [pc, steps, n, last]
    untag,       \* untagRunner: [pc, steps, n, last]
    runErr,      \* the error Run returned
    \* ---- one retry wrapper (SpecBackoff)
    bKind,       \* which wrapper: deleteRunner, deleteRouterRunner, untagRunner
    bpc,         \* "loop" while wait.ExponentialBackoff runs, then how the wrapper ended
    bSteps,      \* backoff.Steps still left
    bHist,       \* the results of the task's invocations so far, in order
    bErr,        \* the error wait.ExponentialBackoff returned
    bEnd,        \* what the wrapper did with it
    \* ---- filterObjects (SpecFilter)
    fObjects,    \* osObjects
    fFilter,     \* filters
    fResult,     \* the returned slice
    fpc,         \* "call" before the call, "done" after it
    \* ---- one per-kind delete task, invoked again and again (SpecTasks)
    tKind,       \* the task
    tFilter,     \* the cluster's Filter
    tWorld,      \* the resources of the task's kind the provider still holds
    tLast,       \* the last invocation: the provider calls it made, its return
    \* ---- one object-deletion unit of deleteContainers (SpecUnit)
    objectsOnPage, \* the objects still to send to BulkDelete
    bulkResp,    \* the last BulkDelete call: the list sent, err and the response
    errCh,       \* how many errors the unit has sent on errCh
    bulkCalls,   \* how many BulkDelete calls the unit has made
    unitpc,      \* "loop" in the for loop, then "done" or "returned"
    \* ---- deleteNetworks on one network in use (SpecNetwork)
    nState,      \* the provider: the network, its load balancers, floating IPs, ports
    nLast,       \* the last invocation: the provider before it, its calls, its return
    nPrev,       \* the invocation before the last
    \* ---- the workers of deletePorts (SpecWorkers)
    wAllPorts,   \* allPorts of the invocation
    wProvider,   \* the provider: ports, associated floating IPs, groups, trunks
    wCaches,     \* fipByPort and sgByID, and whether their list calls succeed
    wWorkers,    \* worker -> [pc, port, i, localDeleted]
    wChannels,   \* portsChannel (buffer, closed) and deletedChannel
    wMain,       \* deletePorts' own goroutine: [pc, fed, got, numberDeleted, result]
    wStatus,     \* port ID -> what the invocation did with the port
    wPrev,       \* what the invocation before did about trunks
    \* ---- the object-deletion queue of deleteContainers (SpecQueue)
    qMain,       \* deleteContainers' own goroutine: [pc, result, deleted]
    qPages,      \* pages of object names EachPage has still to hand over
    qUnits,      \* the units added to the queue: [pc, toSend, sent]
    qCollector,  \* the goroutine ranging over errCh: [started, holding]
    qErrs        \* len(errs)

orchVars == <<mainpc, runner, received, router, untag, runErr>>
backoffVars == <<bKind, bpc, bSteps, bHist, bErr, bEnd>>
filterVars == <<fObjects, fFilter, fResult, fpc>>
taskVars == <<tKind, tFilter, tWorld, tLast>>
unitVars == <<objectsOnPage, bulkResp, errCh, bulkCalls, unitpc>>
netVars == <<nState, nLast, nPrev>>
workerVars ==
    <<wAllPorts, wProvider, wCaches, wWorkers, wChannels, wMain, wStatus, wPrev>>
queueVars == <<qMain, qPages, qUnits, qCollector, qErrs>>
vars ==
    <<orchVars, backoffVars, filterVars, taskVars, unitVars, netVars, workerVars,
      queueVars>>
\* what each specification leaves alone
notOrchVars ==
    <<backoffVars, filterVars, taskVars, unitVars, netVars, workerVars, queueVars>>
notBackoffVars ==
    <<orchVars, filterVars, taskVars, unitVars, netVars, workerVars, queueVars>>
notFilterVars ==
    <<orchVars, backoffVars, taskVars, unitVars, netVars, workerVars, queueVars>>
notTaskVars ==
    <<orchVars, backoffVars, filterVars, unitVars, netVars, workerVars, queueVars>>
notUnitVars ==
    <<orchVars, backoffVars, filterVars, taskVars, netVars, workerVars, queueVars>>
notNetVars ==
    <<orchVars, backoffVars, filterVars, taskVars, unitVars, workerVars, queueVars>>
notWorkerVars ==
    <<orchVars, backoffVars, filterVars, taskVars, unitVars, netVars, queueVars>>
notQueueVars ==
    <<orchVars, backoffVars, filterVars, taskVars, unitVars, netVars, workerVars>>

----------------------------------------------------------------------------
(* Bounds of the model *)

\* Run launches the first NumTasks of its deleteFuncs.
NumTasks == 2
\* Longest osObjects slice handed to filterObjects.
MaxObjects == 3
\* Most resources of one kind the provider holds when a task is first invoked.
MaxRes == 2
\* Most objects on one page of a container's object list.
MaxPage == 3
\* Most BulkDelete calls of one object-deletion unit the model follows.
MaxBulkCalls == 3
\* Worker goroutines of deletePorts the model starts (workersNumber in the
\* code), also the capacity of portsChannel and deletedChannel.
NumWorkers == 2
\* Most ports deletePorts lists.
MaxPorts == 2
\* Most pages of object names a container's listing has.
MaxQueuePages == 4
\* Most errors one object-deletion unit sends on errCh.
MaxUnitErrors == 1

----------------------------------------------------------------------------
(* Values *)

Nil == "nil"
\* an unrecoverable error returned by a task
ErrTask == "task error"
\* wait.ErrWaitTimeout
ErrWaitTimeout == "timed out waiting for the condition"
\* fmt.Errorf("unrecoverable error: %w", err)
ErrUnrecoverable == "unrecoverable error: task error"

\* The (bool, error) a deleteFunc returns.
TT == [done |-> TRUE, err |-> Nil]
FF == [done |-> FALSE, err |-> Nil]
ERR == [done |-> FALSE, err |-> ErrTask]
\* no invocation yet
NoResult == [done |-> FALSE, err |-> "none"]

\* The keys of deleteFuncs, in the order of the map literal.
DeleteFuncNames ==
    << "cleanVIPsPorts", "deleteServers", "deleteServerGroups", "deleteTrunks",
       "deleteLoadBalancers", "deletePorts", "deleteSecurityGroups",
       "clearRouterInterfaces", "deleteSubnets", "deleteNetworks",
       "deleteContainers", "deleteVolumes", "deleteShares",
       "deleteVolumeSnapshots", "deleteFloatingIPs", "deleteImages" >>

Min(a, b) == IF a < b THEN a ELSE b

\* The goroutines Run launches.
Tasks == {DeleteFuncNames[i] : i \in 1..Min(NumTasks, Len(DeleteFuncNames))}

\* What a deleteFunc may return: done, not done, or an unrecoverable error.
DeleteFuncReturns == {TT, FF, ERR}
\* deleteRouters returns a nil error on every path.
DeleteRoutersReturns == {TT, FF}
\* untagPrimaryNetwork returns an error when more than one network carries the tag.
UntagReturns == {TT, FF, ERR}

RunnerStepsOneMore == 25 + 1
\* backoffSettings.Steps of deleteRunner, deleteRouterRunner and untagRunner
RunnerSteps == 25
RouterSteps == 25
UntagSteps == 25

----------------------------------------------------------------------------
(* The retry wrapper *)

\* One round of wait.ExponentialBackoff with `steps` steps left, the condition
\* having returned r: it returns (returned, with err) or sleeps and goes on with
\* one step less.
ExponentialBackoff(steps, r) ==
    IF r.err # Nil \/ r.done
    THEN [returned |-> TRUE, err |-> r.err, steps |-> steps]
    ELSE IF steps = 1
         THEN [returned |-> TRUE, err |-> ErrWaitTimeout, steps |-> steps]
         ELSE [returned |-> FALSE, err |-> Nil, steps |-> steps - 1]

DeleteRunnerNoFatal(err) == "send"
\* deleteRunner after the backoff returned err: logger.Fatalf, or the send on the
\* return channel.
DeleteRunnerAfter(err) == IF err # Nil THEN "fatal" ELSE "send"

RouterRunnerReturnsNil(err) == Nil
\* deleteRouterRunner's return value after the backoff returned err.
DeleteRouterRunnerReturn(err) ==
    IF err # Nil
    THEN IF err = ErrWaitTimeout THEN err ELSE ErrUnrecoverable
    ELSE Nil

UntagRunnerReturnsNil(err) == Nil
\* untagRunner's return value after the backoff returned err.
UntagRunnerReturn(err) ==
    IF err # Nil
    THEN IF err = ErrWaitTimeout THEN err ELSE ErrUnrecoverable
    ELSE Nil

----------------------------------------------------------------------------
(* One retry wrapper, with the history of its invocations *)

Wrappers == {"deleteRunner", "deleteRouterRunner", "untagRunner"}

StepsOf(kind) ==
    CASE kind = "deleteRunner" -> RunnerSteps
      [] kind = "deleteRouterRunner" -> RouterSteps
      [] kind = "untagRunner" -> UntagSteps

ReturnsOf(kind) ==
    CASE kind = "deleteRunner" -> DeleteFuncReturns
      [] kind = "deleteRouterRunner" -> DeleteRoutersReturns
      [] kind = "untagRunner" -> UntagReturns

\* What the wrapper does once the backoff returned err: deleteRunner exits the
\* process or sends its name, the other two return an error or nil.
EndOf(kind, err) ==
    CASE kind = "deleteRunner" -> DeleteRunnerAfter(err)
      [] kind = "deleteRouterRunner" -> DeleteRouterRunnerReturn(err)
      [] kind = "untagRunner" -> UntagRunnerReturn(err)

BackoffInit ==
    /\ bKind \in Wrappers
    /\ bpc = "loop"
    /\ bSteps = StepsOf(bKind)
    /\ bHist = << >>
    /\ bErr = Nil
    /\ bEnd = "running"

BackoffIdle ==
    /\ bKind = "none"
    /\ bpc = "idle"
    /\ bSteps = 0
    /\ bHist = << >>
    /\ bErr = Nil
    /\ bEnd = "running"

\* One invocation of the wrapped task and the backoff's reaction to its result.
BackoffInvoke ==
    /\ bpc = "loop"
    /\ \E r \in ReturnsOf(bKind) :
          LET b == ExponentialBackoff(bSteps, r) IN
          /\ bHist' = Append(bHist, r)
          /\ bSteps' = b.steps
          /\ bpc' = IF b.returned THEN "ended" ELSE "loop"
          /\ bErr' = b.err
          /\ bEnd' = IF b.returned THEN EndOf(bKind, b.err) ELSE bEnd
    /\ UNCHANGED <<bKind, notBackoffVars>>

----------------------------------------------------------------------------
(* filterObjects *)

Keys == {"a", "b"}
Vals == {"", "1"}

\* A Go map[string]string over Keys: a function on some of the keys.
TagMaps == UNION {[D -> Vals] : D \in SUBSET Keys}

\* m[k] of a Go map: the zero value for a missing key.
MapGet(m, k) == IF k \in DOMAIN m THEN m[k] ELSE ""

\* Slices of ObjectWithTags, the object at index i carrying ID i.
ObjectLists ==
    UNION {{[i \in 1..n |-> [ID |-> i, Tags |-> ts[i]]] : ts \in [1..n -> TagMaps]} :
           n \in 0..MaxObjects}

AllTagsFoundAlways(object, filters) == TRUE
\* First loop of filterObjects: the object has every key of the filter.
AllTagsFound(object, filters) ==
    \A key \in DOMAIN filters : key \in DOMAIN object.Tags

ValuesMatchAlways(object, filters) == TRUE
\* Second loop of filterObjects: the object's value equals the filter's for
\* every key of the filter.
ValuesMatch(object, filters) ==
    \A key \in DOMAIN filters : MapGet(object.Tags, key) = filters[key]

\* filterObjects(osObjects, filters): the objects with all the tags, then those
\* of them whose values match, in the order of osObjects.
filterObjects(osObjects, filters) ==
    LET hasTags(o) == AllTagsFound(o, filters)
        objectsWithTags == SelectSeq(osObjects, hasTags)
        sameValues(o) == ValuesMatch(o, filters)
    IN  SelectSeq(objectsWithTags, sameValues)

FilterInit ==
    /\ fObjects \in ObjectLists
    /\ fFilter \in TagMaps
    /\ fResult = << >>
    /\ fpc = "call"

FilterIdle ==
    /\ fObjects = << >>
    /\ fFilter = << >>
    /\ fResult = << >>
    /\ fpc = "idle"

FilterCall ==
    /\ fpc = "call"
    /\ fResult' = filterObjects(fObjects, fFilter)
    /\ fpc' = "done"
    /\ UNCHANGED <<fObjects, fFilter, notFilterVars>>

----------------------------------------------------------------------------
(* The per-kind delete tasks *)

cinderCSIClusterIDKey == "cinder.csi.openstack.org/cluster"
manilaCSIClusterIDKey == "manila.csi.openstack.org/cluster"
ClusterKey == "openshiftClusterID"

TaskKinds ==
    { "deleteServers", "deleteServerGroups", "deleteTrunks", "deleteLoadBalancers",
      "deletePorts", "deleteSecurityGroups", "deleteSubnets", "deleteNetworks",
      "deleteContainers", "deleteVolumes", "deleteVolumeSnapshots", "deleteShares",
      "deleteFloatingIPs", "deleteImages", "deleteRouters" }

\* The resources a provider may hold. owner: the cluster named by the resource's
\* name, tags and metadata; csi: the cluster named under the Cinder CSI metadata
\* key of a volume or a volume snapshot ("": the key is absent).
Catalog ==
    { [ID |-> 1, owner |-> "abc", csi |-> ""], [ID |-> 2, owner |-> "xyz", csi |-> ""],
      [ID |-> 3, owner |-> "abc", csi |-> "abc"],
      [ID |-> 4, owner |-> "pvc", csi |-> "abc"] }

\* What the provider records for a resource, by the attribute a task reads.
\* Metadata of a server or a share (the key the task looks up).
MetadataOf(r, key) == [k \in {key} |-> r.owner]
\* Metadata of a volume or a volume snapshot.
CSIMetadataOf(r) ==
    [k \in (IF r.csi = "" THEN {} ELSE {cinderCSIClusterIDKey}) |-> r.csi]
\* val, ok := metadata[cinderCSIClusterIDKey]; ok && val == clusterID
CSIMatch(r, clusterID) ==
    /\ cinderCSIClusterIDKey \in DOMAIN CSIMetadataOf(r)
    /\ CSIMetadataOf(r)[cinderCSIClusterIDKey] = clusterID
\* Tags of a networking resource or an image, each a <<key, value>> for "key=value".
TagsOf(r) == {<<ClusterKey, r.owner>>}
\* Name of a server group or a volume, description of a load balancer: the
\* cluster ID followed by more text, as a sequence of pieces.
NameOf(r) == <<r.owner, "-", "res">>
\* Swift's rendering of a metadata key: X-Container-Meta-Openshiftclusterid.
SwiftKey(key) == IF key = ClusterKey THEN "Openshiftclusterid" ELSE key
ContainerMetadataOf(r) == [k \in {SwiftKey(ClusterKey)} |-> r.owner]

\* strings.ToLower on the keys of the model
ToLower(k) == IF k = ClusterKey THEN "openshiftclusterid" ELSE k
\* strings.Title(strings.ToLower(key))
TitleKey(key) == IF ToLower(key) = "openshiftclusterid" THEN "Openshiftclusterid" ELSE key

\* A string as the sequence of its pieces; "" is the empty sequence.
Str(v) == IF v = "" THEN << >> ELSE << v >>
\* strings.HasPrefix
HasPrefix(name, prefix) ==
    Len(prefix) <= Len(name) /\ SubSeq(name, 1, Len(prefix)) = prefix
\* strings.Contains
Contains(text, sub) ==
    \E i \in 0..(Len(text) - Len(sub)) : SubSeq(text, i + 1, i + Len(sub)) = sub

\* for k, v := range filter { if strings.ToLower(k) == "openshiftclusterid" {...} }
ClusterIDOf(filter) ==
    LET hits == {k \in DOMAIN filter : ToLower(k) = "openshiftclusterid"}
    IN  IF hits = {} THEN "" ELSE filter[CHOOSE k \in hits : TRUE]

\* filterTags: "key=value" for every pair of the filter
filterTags(filters) == {<<k, filters[k]>> : k \in DOMAIN filters}

RECURSIVE SortedSeq(_)
\* The records of a list call, in the provider's order (by ID here).
SortedSeq(S) ==
    IF S = {} THEN << >>
    ELSE LET m == CHOOSE x \in S : \A y \in S : x.ID <= y.ID
         IN  << m >> \o SortedSeq(S \ {m})

\* A list call with TagsAny: the resources carrying at least one of the tags.
ListTagsAny(world, tags) == SortedSeq({r \in world : TagsOf(r) \cap tags # {}})
\* A list call with Tags: the resources carrying all the tags.
ListTagsAll(world, tags) == SortedSeq({r \in world : tags \subseteq TagsOf(r)})

\* How the provider answers a delete call.
DelResp == {"ok", "notfound", "conflict", "error"}

\* How the calls before a task's loop end: all fine, or the first that fails.
PreResp ==
    { "ok", "clientError", "endpointNotFound", "listError", "listNotFound",
      "listForbidden", "listUnauthorized", "extractError" }

\* How the provider answers the calls a task makes for one candidate beside its
\* delete.
AuxOf(kind) ==
    CASE kind = "deletePorts" -> {"nofip", "ok", "notfound", "error"}
      [] kind = "deleteNetworks" ->
            {"ok", "lbEndpointNotFound", "lbClientError", "lbError"}
      [] kind = "deleteShares" ->
            {"ok", "noSnapshots", "snapGone", "snapListError", "snapFirstFails",
             "snapSecondFails"}
      [] kind = "deleteRouters" ->
            {"ok", "fipListError", "fipUpdateError", "fipNotFound", "gatewayError"}
      [] kind = "deleteContainers" ->
            {"ok", "getNotFound", "getError", "pagesError", "pagesNotFound",
             "bulkErrSeen", "bulkErrUnseen"}
      [] OTHER -> {"ok"}

Call(op, id, resp) == [op |-> op, id |-> id, resp |-> resp]

\* What the body of a task's loop did for one candidate.
StepOf(calls, counted, selected, stop) ==
    [calls |-> calls, counted |-> counted, selected |-> selected, stop |-> stop]

\* A loop body that counts a candidate only when its delete call succeeded.
DeleteCountingOnlySuccess(r, d) ==
    StepOf(<< Call("delete", r.ID, d) >>, d = "ok", TRUE, NoResult)
\* The loop body of deleteServers, deleteTrunks, deleteLoadBalancers,
\* deleteSecurityGroups, deleteSubnets, deleteVolumes and deleteFloatingIPs: a
\* delete error other than not-found skips the increment.
DeleteIgnoringNotFound(r, d) ==
    StepOf(<< Call("delete", r.ID, d) >>, d \in {"ok", "notfound"}, TRUE, NoResult)

\* deleteServerGroups: `continue` when the error IS not-found; every other
\* outcome of the delete reaches numberDeleted++.
StepServerGroups(r, d) ==
    StepOf(<< Call("delete", r.ID, d) >>, d # "notfound", TRUE, NoResult)

\* deleteImages: every delete error skips the increment.
StepImages(r, d) ==
    StepOf(<< Call("delete", r.ID, d) >>, d = "ok", TRUE, NoResult)

\* The security groups a provider may hold, by ID.
SGroups == {11, 12, 13, 14, 15}

\* A UUID, as cloud-provider-openstack puts it in the names of its groups.
UUID == "6ba7b810-9dad-11d1-80b4-00c04fd430c8"

\* The name of a security group, as the sequence of its pieces.
SGName(g) ==
    CASE g = 11 -> << "lb-sg-", UUID >>
      [] g = 12 -> << "abc-worker" >>
      [] g = 13 -> << "my-", "lb-sg-", UUID >>
      [] g = 14 -> << "lb-sg-", "frontend" >>
      [] g = 15 -> << "lb-sg-", UUID, "-old" >>

\* cloudProviderSGNamePattern: ^lb-sg- followed by a UUID, open at the end.
cloudProviderSGNameRegexpMatchString(name) ==
    Len(name) >= 2 /\ name[1] = "lb-sg-" /\ name[2] = UUID

\* port.SecurityGroups of a port to delete.
SGAttachments == { << 12, 11 >>, << 13, 14, 15 >> }

\* What getSGsByID returns: every group by ID, or nothing when its list failed.
SGCaches == { [g \in SGroups |-> SGName(g)], << >> }

\* sgByID after the calls made so far: a group whose delete answered success or
\* not-found was removed from the map.
SGByIDAfter(sgByID, calls) ==
    LET removed == {calls[i].id : i \in {j \in 1..Len(calls) :
                                     /\ calls[j].op = "deleteSG"
                                     /\ calls[j].resp \in {"ok", "notfound"}}}
    IN  [g \in DOMAIN sgByID \ removed |-> sgByID[g]]

\* A pass over the groups of a port that deletes every one of them.
DeleteEveryAssignedSG(assignedSGs, sgByID, sgDel) ==
    [g \in 1..Len(assignedSGs) |-> Call("deleteSG", assignedSGs[g], "ok")]

RECURSIVE DeleteAssignedSGs(_, _, _)
\* for _, groupID := range assignedSGs: the group is deleted when sgByID holds it
\* and its name matches the pattern of cloud-provider-openstack.
DeleteAssignedSGs(assignedSGs, sgByID, sgDel) ==
    IF assignedSGs = << >> THEN << >>
    ELSE LET groupID == Head(assignedSGs) IN
         IF /\ groupID \in DOMAIN sgByID
            /\ cloudProviderSGNameRegexpMatchString(sgByID[groupID])
         THEN LET c == Call("deleteSG", groupID, sgDel[groupID]) IN
              << c >> \o DeleteAssignedSGs(Tail(assignedSGs),
                                           SGByIDAfter(sgByID, << c >>), sgDel)
         ELSE DeleteAssignedSGs(Tail(assignedSGs), sgByID, sgDel)

\* deletePortsWorker for one port: dissociate its floating IP (a = "nofip": none
\* cached), detach its security groups, delete those of cloud-provider-openstack
\* (sgCalls), delete the port; a failed delete tries the trunk and leaves the
\* port uncounted.
StepPorts(r, d, a, sgCalls) ==
    LET fip == IF a = "nofip" THEN << >> ELSE << Call("updateFIP", r.ID, a) >> IN
    IF a = "error"
    THEN StepOf(fip, FALSE, TRUE, NoResult)
    ELSE StepOf(fip \o << Call("updatePort", r.ID, "ok") >> \o sgCalls
                    \o << Call("delete", r.ID, d) >>
                    \o (IF d # "ok"
                        THEN << Call("deleteAssociatedTrunk", r.ID, "ok") >>
                        ELSE << >>),
                d = "ok", TRUE, NoResult)

ErrLeftoverLoadBalancers == "leftover load balancers not deleted"

\* deleteLeftoverLoadBalancers for one network, by how the provider answers (a):
\* nil when the load-balancer endpoint is not registered or every load balancer
\* of the network was deleted; the error of the client creation or of the list,
\* or "only deleted n of m load balancers", otherwise.
deleteLeftoverLoadBalancers(id, a) ==
    CASE a = "lbEndpointNotFound" ->
            [calls |-> << Call("loadBalancerClient", id, "endpointNotFound") >>,
             err |-> Nil]
      [] a = "lbClientError" ->
            [calls |-> << Call("loadBalancerClient", id, "error") >>,
             err |-> ErrLeftoverLoadBalancers]
      [] a = "lbError" ->
            [calls |-> << Call("loadBalancerClient", id, "ok"),
                          Call("deleteLoadBalancers", id, "error") >>,
             err |-> ErrLeftoverLoadBalancers]
      [] OTHER ->
            [calls |-> << Call("loadBalancerClient", id, "ok"),
                          Call("deleteLoadBalancers", id, "ok") >>,
             err |-> Nil]

\* A loop body that cleans the ports whatever the load balancer cleanup returned.
StepNetworksPortsAlways(r, d, a) ==
    IF d \in {"ok", "notfound"}
    THEN StepOf(<< Call("delete", r.ID, d) >>, TRUE, TRUE, NoResult)
    ELSE StepOf(<< Call("delete", r.ID, d) >>
                    \o deleteLeftoverLoadBalancers(r.ID, a).calls
                    \o << Call("deletePortsByNetwork", r.ID, "ok") >>,
                FALSE, TRUE, NoResult)

\* deleteNetworks for one network: a delete error other than not-found runs the
\* leftover load balancer cleanup and, when that returned nil, the port cleanup;
\* the network is not counted.
StepNetworks(r, d, a) ==
    IF d \in {"ok", "notfound"}
    THEN StepOf(<< Call("delete", r.ID, d) >>, TRUE, TRUE, NoResult)
    ELSE LET lb == deleteLeftoverLoadBalancers(r.ID, a) IN
         StepOf(<< Call("delete", r.ID, d) >> \o lb.calls
                    \o (IF lb.err = Nil
                        THEN << Call("deletePortsByNetwork", r.ID, "ok") >>
                        ELSE << >>),
                FALSE, TRUE, NoResult)

\* The snapshots the provider lists for a share, by ID, and its answers to
\* their delete calls, under answer a.
SnapshotID(shareID, i) == 10 * shareID + i
SnapshotAnswers(a) ==
    CASE a = "noSnapshots" -> << >>
      [] a = "snapGone" -> << "notfound", "ok" >>
      [] a = "snapFirstFails" -> << "error", "ok" >>
      [] a = "snapSecondFails" -> << "ok", "error" >>
      [] OTHER -> << "ok", "ok" >>

\* The delete calls of deleteShareSnapshots for the snapshots of the share.
SnapshotCalls(shareID, resp) ==
    IF resp = << >>
    THEN << >>
    ELSE << Call("deleteSnapshot", SnapshotID(shareID, 1), resp[1]),
            Call("deleteSnapshot", SnapshotID(shareID, 2), resp[2]) >>

\* numberDeleted of deleteShareSnapshots: a delete error other than not-found
\* skips the increment.
SnapshotsDeleted(resp) ==
    Cardinality({i \in DOMAIN resp : resp[i] \in {"ok", "notfound"}})

\* deleteShareSnapshots: list the snapshots of the share (an error returns
\* false), delete each; numberDeleted == numberToDelete.
deleteShareSnapshots(shareID, a) ==
    IF a = "snapListError"
    THEN [calls |-> << Call("listSnapshots", shareID, "error") >>, deleted |-> FALSE]
    ELSE [calls |-> << Call("listSnapshots", shareID, "ok") >>
                    \o SnapshotCalls(shareID, SnapshotAnswers(a)),
          deleted |-> SnapshotsDeleted(SnapshotAnswers(a)) = Len(SnapshotAnswers(a))]

\* A loop body that deletes the share whatever became of its snapshots.
StepSharesDeleteAnyway(r, d, a) ==
    StepOf(deleteShareSnapshots(r.ID, a).calls \o << Call("delete", r.ID, d) >>,
           d \in {"ok", "notfound"}, TRUE, NoResult)

\* deleteShares for one share: its snapshots first; when some are left the task
\* returns (false, nil) at once; else the share's delete, an error other than
\* not-found skipping the increment.
StepShares(r, d, a) ==
    IF ~deleteShareSnapshots(r.ID, a).deleted
    THEN StepOf(deleteShareSnapshots(r.ID, a).calls, FALSE, TRUE, FF)
    ELSE StepOf(deleteShareSnapshots(r.ID, a).calls \o << Call("delete", r.ID, d) >>,
                d \in {"ok", "notfound"}, TRUE, NoResult)

\* A router whose floating IPs could not be dissociated is deleted all the same.
StepRoutersDeleteAlways(r, d, a) ==
    StepOf(<< Call("listFIPs", r.ID, "ok"),
              Call("updateFips", r.ID, IF a = "fipUpdateError" THEN "error" ELSE "ok"),
              Call("updateRouter", r.ID, "ok"), Call("delete", r.ID, d) >>,
           d \in {"ok", "notfound"}, TRUE, NoResult)

\* deleteRouters for one router: list the floating IPs routed through it
\* (an error returns false, nil), updateFips (an error other than not-found
\* goes on to the next router), clear the gateway (its error is only logged),
\* delete the router.
StepRouters(r, d, a) ==
    IF a = "fipListError"
    THEN StepOf(<< Call("listFIPs", r.ID, "error") >>, FALSE, TRUE, FF)
    ELSE IF a = "fipUpdateError"
    THEN StepOf(<< Call("listFIPs", r.ID, "ok"), Call("updateFips", r.ID, "error") >>,
                FALSE, TRUE, NoResult)
    ELSE StepOf(<< Call("listFIPs", r.ID, "ok"),
                   Call("updateFips", r.ID,
                        IF a = "fipNotFound" THEN "notfound" ELSE "ok"),
                   Call("updateRouter", r.ID,
                        IF a = "gatewayError" THEN "error" ELSE "ok"),
                   Call("delete", r.ID, d) >>,
                d \in {"ok", "notfound"}, TRUE, NoResult)

\* deleteVolumeSnapshots for one snapshot: deleted only when its metadata names
\* the cluster; a snapshot of another cluster is counted without a call.
StepVolumeSnapshots(r, d, clusterID) ==
    IF CSIMatch(r, clusterID)
    THEN StepOf(<< Call("delete", r.ID, d) >>, d \in {"ok", "notfound"}, TRUE, NoResult)
    ELSE StepOf(<< >>, TRUE, FALSE, NoResult)

\* errors occurred during bulk deletion of the objects of container ...
ErrBulkDelete == "errors occurred during bulk deletion of the objects"

\* deleteContainers for one container: read its metadata; when a key of the
\* filter matches, bulk-delete its objects and delete it. a = "pagesNotFound":
\* listing the objects answered not-found, which is ignored; "bulkErrSeen": a
\* unit sent an error and len(errs) read it; "bulkErrUnseen": a unit sent an
\* error and the unsynchronised read of errs missed it.
StepContainers(r, d, a, filter) ==
    LET metadata == ContainerMetadataOf(r)
        match == \E key \in DOMAIN filter :
                    MapGet(metadata, TitleKey(key)) = filter[key]
    IN
    IF a = "getNotFound"
    THEN StepOf(<< Call("getContainer", r.ID, "notfound") >>, TRUE, FALSE, NoResult)
    ELSE IF a = "getError"
    THEN StepOf(<< Call("getContainer", r.ID, "error") >>, FALSE, FALSE, FF)
    ELSE IF ~match
    THEN StepOf(<< Call("getContainer", r.ID, "ok") >>, TRUE, FALSE, NoResult)
    ELSE IF a = "pagesError"
    THEN StepOf(<< Call("getContainer", r.ID, "ok"),
                   Call("listObjects", r.ID, "error") >>, FALSE, TRUE, FF)
    ELSE IF a = "bulkErrSeen"
    THEN StepOf(<< Call("getContainer", r.ID, "ok"), Call("listObjects", r.ID, "ok"),
                   Call("bulkDelete", r.ID, "error") >>,
                FALSE, TRUE, [done |-> FALSE, err |-> ErrBulkDelete])
    ELSE IF a = "pagesNotFound"
    THEN StepOf(<< Call("getContainer", r.ID, "ok"),
                   Call("listObjects", r.ID, "notfound"), Call("delete", r.ID, d) >>,
                d \in {"ok", "notfound"}, TRUE,
                IF d \in {"ok", "notfound"} THEN NoResult ELSE FF)
    ELSE StepOf(<< Call("getContainer", r.ID, "ok"), Call("listObjects", r.ID, "ok"),
                   Call("bulkDelete", r.ID, IF a = "ok" THEN "ok" ELSE "error"),
                   Call("delete", r.ID, d) >>,
                d \in {"ok", "notfound"}, TRUE,
                IF d \in {"ok", "notfound"} THEN NoResult ELSE FF)

\* The loop body of task `kind` for candidate r, the provider answering its
\* delete with d and its other calls with a; calls: the calls the loop made before.
Step(kind, r, d, a, filter, e, calls) ==
    CASE kind = "deleteServerGroups" -> StepServerGroups(r, d)
      [] kind = "deleteImages" -> StepImages(r, d)
      [] kind = "deletePorts" ->
            StepPorts(r, d, a,
                      DeleteAssignedSGs(e.sgs[r.ID], SGByIDAfter(e.sgByID, calls),
                                        e.sgDel))
      [] kind = "deleteNetworks" -> StepNetworks(r, d, a)
      [] kind = "deleteShares" -> StepShares(r, d, a)
      [] kind = "deleteRouters" -> StepRouters(r, d, a)
      [] kind = "deleteVolumeSnapshots" ->
            StepVolumeSnapshots(r, d, ClusterIDOf(filter))
      [] kind = "deleteContainers" -> StepContainers(r, d, a, filter)
      [] OTHER -> DeleteIgnoringNotFound(r, d)

\* The tasks whose service may be absent from the cloud.
NoOptionalServiceKinds == {}
OptionalServiceKinds == {"deleteLoadBalancers", "deleteContainers", "deleteShares"}

\* The return of task `kind` when a call before its loop failed (NoResult: none
\* failed, the loop runs).
PreReturn(kind, pre) ==
    CASE pre = "ok" -> NoResult
      [] pre = "endpointNotFound" ->
            IF kind \in OptionalServiceKinds THEN TT ELSE FF
      [] pre = "listNotFound" -> IF kind = "deleteTrunks" THEN TT ELSE FF
      [] pre \in {"listForbidden", "listUnauthorized"} ->
            IF kind = "deleteContainers" THEN TT ELSE FF
      [] OTHER -> FF

RECURSIVE VolumeIDs(_, _)
\* volumeIDs of deleteVolumes: a volume is appended when its name has the cluster
\* ID as a prefix, and appended when its CSI metadata names the cluster.
VolumeIDs(allVolumes, clusterID) ==
    IF allVolumes = << >> THEN << >>
    ELSE LET volume == Head(allVolumes) IN
         (IF HasPrefix(NameOf(volume), Str(clusterID)) THEN << volume >> ELSE << >>)
         \o (IF CSIMatch(volume, clusterID) THEN << volume >> ELSE << >>)
         \o VolumeIDs(Tail(allVolumes), clusterID)

\* The records task `kind` loops over: client-side selection for servers, server
\* groups, load balancers and volumes, a filtered list call for the others, the
\* whole list for containers and volume snapshots.
Listing(kind, world, filter) ==
    CASE kind = "deleteServers" ->
            LET all == SortedSeq(world)
                serverObjects == [i \in 1..Len(all) |->
                                    [ID |-> all[i].ID,
                                     Tags |-> MetadataOf(all[i], ClusterKey)]]
                filteredServers == filterObjects(serverObjects, filter)
                ids == {filteredServers[i].ID : i \in 1..Len(filteredServers)}
            IN  SortedSeq({r \in world : r.ID \in ids})
      [] kind = "deleteServerGroups" ->
            SortedSeq({r \in world : HasPrefix(NameOf(r), Str(ClusterIDOf(filter)))})
      [] kind = "deleteVolumes" -> VolumeIDs(SortedSeq(world), ClusterIDOf(filter))
      [] kind = "deleteLoadBalancers" ->
            SortedSeq({r \in world :
                          Contains(NameOf(r), Str(MapGet(filter, ClusterKey)))})
      [] kind = "deleteShares" ->
            SortedSeq({r \in world :
                          MetadataOf(r, manilaCSIClusterIDKey)[manilaCSIClusterIDKey]
                              = ClusterIDOf(filter)})
      [] kind \in {"deleteContainers", "deleteVolumeSnapshots"} -> SortedSeq(world)
      [] kind = "deleteImages" -> ListTagsAll(world, filterTags(filter))
      [] OTHER -> ListTagsAny(world, filterTags(filter))

RECURSIVE Loop(_, _, _, _, _)
\* The task's loop over the records rs: the calls made, numberDeleted, the
\* candidates selected for deletion, and the return that ended the loop early.
Loop(kind, rs, e, filter, acc) ==
    IF rs = << >> \/ acc.stop # NoResult
    THEN acc
    ELSE LET r == Head(rs)
             \* the provider's answer to the first delete call for a resource, and
             \* to a further delete call for it in the same invocation
             again == \E i \in 1..Len(acc.calls) :
                         acc.calls[i].op = "delete" /\ acc.calls[i].id = r.ID
             d == IF again THEN e.del2[r.ID] ELSE e.del[r.ID]
             st == Step(kind, r, d, e.aux[r.ID], filter, e, acc.calls)
         IN  Loop(kind, Tail(rs), e, filter,
                  [calls |-> acc.calls \o st.calls,
                   counted |-> acc.counted + (IF st.counted THEN 1 ELSE 0),
                   selected |-> acc.selected \cup (IF st.selected THEN {r.ID} ELSE {}),
                   stop |-> st.stop])

\* A return after the loop that is done only when something was deleted.
FinalReturnNeedsWork(kind, numberDeleted, numberToDelete) ==
    [done |-> numberToDelete > 0 /\ numberDeleted = numberToDelete, err |-> Nil]
\* The return after the loop: numberDeleted == numberToDelete; deleteContainers
\* returns (true, nil).
FinalReturn(kind, numberDeleted, numberToDelete) ==
    IF kind = "deleteContainers"
    THEN TT
    ELSE [done |-> numberDeleted = numberToDelete, err |-> Nil]

\* o.InfraID, the cluster "abc" of the filter
InfraID == "abc"

\* networkTag := infraID + "-primaryClusterNetwork"
NetworkTag(infraID) == << infraID, "-primaryClusterNetwork" >>

\* The primary-network tag a network of the catalog carries.
PrimaryTagsOf(r) == {NetworkTag(r.owner)}

\* A list call that ignores the tag.
ListUntagged(world, infraID) == SortedSeq(world)

\* networks.List with Tags: networkTag
ListPrimary(world, infraID) ==
    SortedSeq({r \in world : NetworkTag(infraID) \in PrimaryTagsOf(r)})

ErrMoreThanOne == "more than one network with tag"

\* One invocation of untagPrimaryNetwork: e.pre answers the client creation, the
\* list and the extraction, e.d the tag-removal call.
untagPrimaryNetwork(world, infraID, e) ==
    LET allNetworks == ListPrimary(world, infraID)
        head == [ran |-> TRUE, kind |-> "untagPrimaryNetwork", world |-> world,
                 facts |-> << >>, pre |-> e.pre, calls |-> << >>, selected |-> {},
                 result |-> FF]
    IN
    IF e.pre # "ok"
    THEN head
    ELSE IF Len(allNetworks) > 1
    THEN [head EXCEPT !.result = [done |-> FALSE, err |-> ErrMoreThanOne]]
    ELSE IF Len(allNetworks) = 0
    THEN [head EXCEPT !.result = TT]
    ELSE [head EXCEPT
             !.calls = << Call("deleteTag", allNetworks[1].ID, e.d) >>,
             !.selected = {allNetworks[1].ID},
             !.result = IF e.d # "ok" THEN FF ELSE TT]

\* The provider's answers to one invocation of untagPrimaryNetwork.
UntagAnswers(world, infraID) ==
    {[pre |-> pre, d |-> "ok"] : pre \in PreResp \ {"ok"}}
    \cup {[pre |-> "ok", d |-> d] :
             d \in IF Len(ListPrimary(world, infraID)) = 1 THEN DelResp ELSE {"ok"}}

\* The networks that lost the tag: the call removed it, or it was not there.
Untagged(calls) ==
    {calls[i].id : i \in {j \in 1..Len(calls) :
                             /\ calls[j].op = "deleteTag"
                             /\ calls[j].resp \in {"ok", "notfound"}}}

\* ---- clearRouterInterfaces and removeRouterInterfaces ----

\* The router the cluster's networks are connected to.
RouterID == 41

\* router.Tags as the provider may hold them: the cluster's tag, none, or the
\* tag of a cluster whose ID starts like this one's.
RouterTagSets == { {<<ClusterKey, "abc">>}, {}, {<<ClusterKey, "abcd">>} }

RouterPort(id, subnetIDs) == [ID |-> id, FixedIPs |-> subnetIDs]

\* The ports of the router, each with the subnets of its fixed IPs: none, one
\* port on a subnet, ports on two subnets, a port with two fixed IPs, two ports
\* on one subnet.
RouterPortLists ==
    { << >>,
      << RouterPort(31, << 21 >>) >>,
      << RouterPort(31, << 22 >>) >>,
      << RouterPort(31, << 21 >>), RouterPort(32, << 22 >>) >>,
      << RouterPort(31, << 21, 22 >>) >>,
      << RouterPort(31, << 21 >>), RouterPort(32, << 21 >>) >> }

\* The IDs of the subnets carrying the cluster's tag, as the list call gives them.
ClusterSubnetLists == { << >>, << 21 >>, << 21, 22 >> }

\* The answers to a remove-interface call.
RemoveResp == {"ok", "notfound", "error"}

\* A test that takes every router for a router of the cluster.
isAnyRouter(clusterTag, tags) == TRUE

\* isClusterRouter: some tag of the router equals the cluster tag
isClusterRouter(clusterTag, tags) == clusterTag \in tags

\* isClusterSubnet: the ID is the ID of one of the subnets
isClusterSubnet(subnets, subnetID) ==
    \E i \in 1..Len(subnets) : subnets[i] = subnetID

RECURSIVE FixedIPPairs(_)
\* for _, port := range allPorts { for _, IP := range port.FixedIPs {
FixedIPPairs(allPorts) ==
    IF allPorts = << >> THEN << >>
    ELSE LET port == Head(allPorts) IN
         [i \in 1..Len(port.FixedIPs) |-> [port |-> port.ID, SubnetID |-> port.FixedIPs[i]]]
         \o FixedIPPairs(Tail(allPorts))

\* A lookup that never finds the subnet among the removed ones.
NeverRemoved(removedSubnets, subnetID) == FALSE

\* removedSubnets[IP.SubnetID]
WasRemoved(removedSubnets, subnetID) == subnetID \in removedSubnets

RECURSIVE RemoveLoop(_, _, _, _, _)
\* The body of the two loops of removeRouterInterfaces for the fixed IPs left.
RemoveLoop(pairs, clusterRouter, allSubnets, rem, acc) ==
    IF pairs = << >> \/ acc.stop
    THEN acc
    ELSE LET IP == Head(pairs) IN
         IF ~clusterRouter /\ ~isClusterSubnet(allSubnets, IP.SubnetID)
         THEN RemoveLoop(Tail(pairs), clusterRouter, allSubnets, rem,
                         [acc EXCEPT !.customInterfaces = @ + 1])
         ELSE IF ~WasRemoved(acc.removedSubnets, IP.SubnetID)
         THEN LET resp == rem[IP.SubnetID]
                  c == Call("removeInterface", IP.SubnetID, resp)
              IN  IF resp = "error"
                  THEN [acc EXCEPT !.calls = Append(@, c), !.stop = TRUE]
                  ELSE RemoveLoop(Tail(pairs), clusterRouter, allSubnets, rem,
                                  [acc EXCEPT !.calls = Append(@, c),
                                              !.removedSubnets = @ \cup {IP.SubnetID},
                                              !.numberDeleted = @ + 1])
         ELSE RemoveLoop(Tail(pairs), clusterRouter, allSubnets, rem, acc)

ErrRouterLists == "failed to get ports or subnets list"

\* removeRouterInterfaces for a router with the tags e.Tags: e.rpre answers the
\* two list calls, e.ports and e.subnets are what they return, e.rem answers the
\* remove-interface call per subnet.
removeRouterInterfaces(filter, e) ==
    IF e.rpre # "ok"
    THEN [calls |-> << >>, result |-> [done |-> FALSE, err |-> ErrRouterLists]]
    ELSE LET clusterTag == <<ClusterKey, MapGet(filter, ClusterKey)>>
             clusterRouter == isClusterRouter(clusterTag, e.Tags)
             l == RemoveLoop(FixedIPPairs(e.ports), clusterRouter, e.subnets, e.rem,
                             [calls |-> << >>, removedSubnets |-> {},
                              numberDeleted |-> 0, customInterfaces |-> 0,
                              stop |-> FALSE])
             numberToDelete == Len(e.ports) - l.customInterfaces
         IN  [calls |-> l.calls,
              result |-> IF l.stop THEN FF
                         ELSE [done |-> numberToDelete = l.numberDeleted, err |-> Nil]]

\* What getRouterInterfaces finds for one tagged network.
NetworkFindings ==
    {"noSubnets", "subnetGetError", "noGateway", "portListError", "noPorts",
     "routerPort"}

RECURSIVE getRouterInterfaces(_, _)
\* getRouterInterfaces: the first tagged network whose first subnet has a gateway
\* with a port gives the router; an error ends the search with nothing found.
getRouterInterfaces(allNetworks, nf) ==
    IF allNetworks = << >> THEN [found |-> FALSE, calls |-> << >>]
    ELSE LET network == Head(allNetworks)
             f == nf[network.ID]
             rest == getRouterInterfaces(Tail(allNetworks), nf)
         IN
         CASE f = "noSubnets" -> rest
           [] f = "subnetGetError" ->
                 [found |-> FALSE, calls |-> << Call("getSubnet", network.ID, "error") >>]
           [] f = "noGateway" ->
                 [found |-> rest.found,
                  calls |-> << Call("getSubnet", network.ID, "ok") >> \o rest.calls]
           [] f = "portListError" ->
                 [found |-> FALSE,
                  calls |-> << Call("getSubnet", network.ID, "ok"),
                               Call("listGatewayPorts", network.ID, "error") >>]
           [] f = "noPorts" ->
                 [found |-> rest.found,
                  calls |-> << Call("getSubnet", network.ID, "ok"),
                               Call("listGatewayPorts", network.ID, "ok") >>
                            \o rest.calls]
           [] OTHER ->
                 [found |-> TRUE,
                  calls |-> << Call("getSubnet", network.ID, "ok"),
                               Call("listGatewayPorts", network.ID, "ok") >>]

\* One invocation of clearRouterInterfaces against the networks `world`.
clearRouterInterfaces(world, filter, e) ==
    LET head == [ran |-> TRUE, kind |-> "clearRouterInterfaces", world |-> world,
                 facts |-> << >>, pre |-> e.pre, calls |-> << >>, selected |-> {},
                 result |-> FF]
        allNetworks == ListTagsAll(world, filterTags(filter))
        routerPorts == getRouterInterfaces(allNetworks, e.nf)
        removed == removeRouterInterfaces(filter, e)
    IN
    IF e.pre # "ok"
    THEN head
    ELSE IF ~routerPorts.found
    THEN [head EXCEPT !.calls = routerPorts.calls, !.result = TT]
    ELSE IF e.rget # "ok"
    THEN [head EXCEPT !.calls = routerPorts.calls
                                   \o << Call("getRouter", RouterID, "error") >>]
    ELSE [head EXCEPT
             !.facts = [Tags |-> e.Tags, ports |-> e.ports, subnets |-> e.subnets,
                        lists |-> e.rpre],
             !.selected = {RouterID},
             !.calls = routerPorts.calls \o << Call("getRouter", RouterID, "ok") >>
                          \o removed.calls,
             !.result = IF removed.result.err # Nil THEN FF ELSE removed.result]

\* The subnets of the fixed IPs of the ports.
SubnetsOf(allPorts) ==
    LET pairs == FixedIPPairs(allPorts) IN {pairs[i].SubnetID : i \in 1..Len(pairs)}

\* The provider's answers to one invocation of clearRouterInterfaces; what the
\* invocation does not ask for is left at one value.
ClearRouterAnswers(world, filter) ==
    LET ids == {r.ID : r \in {x \in world : filterTags(filter) \subseteq TagsOf(x)}}
        allNetworks == ListTagsAll(world, filterTags(filter))
        none == [rget |-> "ok", rpre |-> "ok", Tags |-> {}, ports |-> << >>,
                 subnets |-> << >>, rem |-> << >>]
        With(pre, nf, r) ==
            [pre |-> pre, nf |-> nf, rget |-> r.rget, rpre |-> r.rpre,
             Tags |-> r.Tags, ports |-> r.ports, subnets |-> r.subnets,
             rem |-> r.rem]
        RouterAnswers ==
            {[none EXCEPT !.rget = "error"]}
            \cup {[none EXCEPT !.rpre = "listError", !.Tags = t] : t \in RouterTagSets}
            \cup UNION {{[none EXCEPT !.Tags = t, !.ports = ps, !.subnets = sn,
                                      !.rem = rem] :
                            rem \in [SubnetsOf(ps) -> RemoveResp]} :
                        t \in RouterTagSets, ps \in RouterPortLists,
                        sn \in ClusterSubnetLists}
    IN  {With(pre, << >>, none) : pre \in PreResp \ {"ok"}}
        \cup UNION {IF getRouterInterfaces(allNetworks, nf).found
                    THEN {With("ok", nf, r) : r \in RouterAnswers}
                    ELSE {With("ok", nf, none)} :
                    nf \in [ids -> NetworkFindings]}

\* ---- cleanVIPsPorts ----

\* openstackdefaults.DualStackVIPsPortTag, the text after the cluster ID in the
\* tag of a user-provided port for the API and Ingress VIPs
DualStackVIPsPortTag == "-dual-stack-vips-port"

\* The tag cleanVIPsPorts lists the ports by.
VIPsPortTag(filter) == <<MapGet(filter, ClusterKey), DualStackVIPsPortTag>>
VIPsTagsOf(r) == {<<r.owner, DualStackVIPsPortTag>>}

\* port.SecurityGroups of a user-provided port, and the cluster-tagged security
\* groups getSecurityGroups may return.
VIPsPortSecurityGroups == << 12, 14, 13 >>
ClusterSGLists == { << 12 >>, << 12, 13 >> }

\* isClusterSG: the ID is the ID of one of the cluster's security groups
isClusterSG(providedPortSG, clusterSGs) ==
    \E i \in 1..Len(clusterSGs) : clusterSGs[i] = providedPortSG

\* A cleaning that leaves every group on the port.
KeepEveryGroup(providedPortSGs, clusterSGs) == providedPortSGs

\* cleanClusterSgs: the port's groups that are not groups of the cluster, in order
cleanClusterSgs(providedPortSGs, clusterSGs) ==
    SelectSeq(providedPortSGs, LAMBDA g : ~isClusterSG(g, clusterSGs))

\* How the provider answers the calls for one port: the port update, the update
\* of the floating IP cached for the port ("none": no floating IP cached), and
\* the removal of the tag.
VIPsPortResp ==
    { [upd |-> "ok", fip |-> "none", tag |-> "ok"],
      [upd |-> "ok", fip |-> "ok", tag |-> "ok"],
      [upd |-> "ok", fip |-> "notfound", tag |-> "ok"],
      [upd |-> "error", fip |-> "none", tag |-> "ok"],
      [upd |-> "ok", fip |-> "error", tag |-> "ok"],
      [upd |-> "ok", fip |-> "none", tag |-> "error"] }

RECURSIVE CleanLoop(_, _, _)
\* for _, port := range allPorts of cleanVIPsPorts
CleanLoop(allPorts, resp, acc) ==
    IF allPorts = << >> \/ acc.stop
    THEN acc
    ELSE LET id == Head(allPorts).ID
             a == resp[id]
             upd == << Call("updatePort", id, a.upd) >>
             fip == IF a.fip = "none" THEN << >>
                    ELSE << Call("updateFloatingIP", id, a.fip) >>
             tag == << Call("deleteTag", id, a.tag) >>
         IN  IF a.upd # "ok"
             THEN [acc EXCEPT !.calls = @ \o upd, !.stop = TRUE]
             ELSE IF a.fip = "error"
             THEN [acc EXCEPT !.calls = @ \o upd \o fip, !.stop = TRUE]
             ELSE IF a.tag # "ok"
             THEN [acc EXCEPT !.calls = @ \o upd \o fip \o tag, !.stop = TRUE]
             ELSE CleanLoop(Tail(allPorts), resp,
                            [acc EXCEPT !.calls = @ \o upd \o fip \o tag,
                                        !.numberCleaned = @ + 1])

\* One invocation of cleanVIPsPorts against the ports `world`. e.lists answers
\* getSecurityGroups and getFIPsByPort, e.clusterSGs is what the first returns.
cleanVIPsPorts(world, filter, e) ==
    LET head == [ran |-> TRUE, kind |-> "cleanVIPsPorts", world |-> world,
                 facts |-> << >>, pre |-> e.pre, calls |-> << >>, selected |-> {},
                 result |-> FF]
        allPorts == SortedSeq({r \in world : VIPsPortTag(filter) \in VIPsTagsOf(r)})
        numberToClean == Len(allPorts)
        l == CleanLoop(allPorts, e.resp,
                       [calls |-> << >>, numberCleaned |-> 0, stop |-> FALSE])
    IN
    IF e.pre # "ok"
    THEN head
    ELSE IF Len(allPorts) > 0
    THEN IF e.lists # "ok"
         THEN head
         ELSE [head EXCEPT
                 !.facts = [clusterSGs |-> e.clusterSGs,
                            sgs |-> cleanClusterSgs(VIPsPortSecurityGroups, e.clusterSGs)],
                 !.selected = {allPorts[i].ID : i \in 1..Len(allPorts)},
                 !.calls = l.calls,
                 !.result = IF l.stop THEN FF
                            ELSE [done |-> l.numberCleaned = numberToClean, err |-> Nil]]
    ELSE [head EXCEPT !.result = [done |-> 0 = numberToClean, err |-> Nil]]

\* The provider's answers to one invocation of cleanVIPsPorts.
CleanVIPsAnswers(world, filter) ==
    LET ids == {r.ID : r \in {x \in world : VIPsPortTag(filter) \in VIPsTagsOf(x)}}
        none == [pre |-> "ok", lists |-> "ok", clusterSGs |-> << >>, resp |-> << >>]
    IN  {[none EXCEPT !.pre = pre] : pre \in PreResp \ {"ok"}}
        \cup (IF ids = {} THEN {none}
              ELSE {[none EXCEPT !.lists = "listError"]}
                   \cup {[none EXCEPT !.clusterSGs = c, !.resp = r] :
                            c \in ClusterSGLists, r \in [ids -> VIPsPortResp]})

\* The ports whose tag an invocation of cleanVIPsPorts removed.
VIPsUntagged(calls) ==
    {calls[i].id : i \in {j \in 1..Len(calls) :
                             calls[j].op = "deleteTag" /\ calls[j].resp = "ok"}}

\* What the provider told the invocation about the resources beside their
\* listing, for the claims to read.
Facts(kind, e) ==
    IF kind = "deletePorts"
    THEN [SecurityGroups |-> e.sgs, sgByID |-> e.sgByID]
    ELSE << >>

\* One invocation of task `kind` against the resources `world`, the provider
\* answering as e says. world: the resources when the invocation started.
TaskPass(kind, world, filter, e) ==
    LET early == PreReturn(kind, e.pre) IN
    IF early # NoResult
    THEN [ran |-> TRUE, kind |-> kind, world |-> world, facts |-> << >>,
          pre |-> e.pre, calls |-> << >>, selected |-> {}, result |-> early]
    ELSE LET rs == Listing(kind, world, filter)
             l == Loop(kind, rs, e, filter,
                       [calls |-> << >>, counted |-> 0, selected |-> {},
                        stop |-> NoResult])
         IN  [ran |-> TRUE, kind |-> kind, world |-> world,
              facts |-> Facts(kind, e), pre |-> e.pre, calls |-> l.calls,
              selected |-> l.selected,
              result |-> IF l.stop # NoResult
                         THEN l.stop
                         ELSE FinalReturn(kind, l.counted, Len(rs))]

\* The resources gone after the calls: deleted by the call, or already deleted
\* by someone else when the call answered not-found.
Gone(calls) ==
    {calls[i].id : i \in {j \in 1..Len(calls) :
                             /\ calls[j].op = "delete"
                             /\ calls[j].resp \in {"ok", "notfound"}}}

\* The resources the task's loop visits more than once.
ListedTwice(kind, world, filter) ==
    LET rs == Listing(kind, world, filter)
    IN  {rs[i].ID : i \in {j \in 1..Len(rs) : \E k \in 1..(j - 1) : rs[k] = rs[j]}}

NoInvocation ==
    [ran |-> FALSE, kind |-> "none", world |-> {}, facts |-> << >>, pre |-> "ok",
     calls |-> << >>, selected |-> {}, result |-> NoResult]

\* The tasks of Run beside the per-kind delete tasks.
OtherKinds == {"untagPrimaryNetwork", "clearRouterInterfaces", "cleanVIPsPorts"}

\* The Filter of the uninstaller: with the cluster ID under openshiftClusterID,
\* or with another key only.
TaskFilters == {[k \in {ClusterKey} |-> "abc"], [k \in {"userKey"} |-> "abc"]}

TaskInit ==
    /\ tKind \in TaskKinds \cup OtherKinds
    /\ tFilter \in TaskFilters
    /\ tWorld \in {W \in SUBSET Catalog : Cardinality(W) <= MaxRes}
    /\ tLast = NoInvocation

TaskIdle ==
    /\ tKind = "none"
    /\ tFilter = << >>
    /\ tWorld = {}
    /\ tLast = NoInvocation

\* The resources the task's loop visits.
Listed(kind, world, filter) ==
    LET rs == Listing(kind, world, filter) IN {rs[i].ID : i \in 1..Len(rs)}

\* The answers after which the loop body makes no delete call for the candidate.
NoDeleteAux(kind) ==
    CASE kind = "deletePorts" -> {"error"}
      [] kind = "deleteShares" ->
            {"snapListError", "snapFirstFails", "snapSecondFails"}
      [] kind = "deleteRouters" -> {"fipListError", "fipUpdateError"}
      [] kind = "deleteContainers" ->
            {"getNotFound", "getError", "pagesError", "bulkErrSeen"}
      [] OTHER -> {}

\* The provider's answers to the calls about one resource: a to the calls beside
\* the delete, d to the delete call when one is made.
AnswersOf(kind) ==
    {[d |-> d, a |-> a] : d \in DelResp, a \in AuxOf(kind) \ NoDeleteAux(kind)}
    \cup {[d |-> "ok", a |-> a] : a \in NoDeleteAux(kind)}

\* What the provider tells deletePorts about security groups: the groups of
\* each port, the groups getSGsByID found, and its answer to the delete of a
\* group whose name matches the pattern.
SGAnswers(kind, ports) ==
    IF kind = "deletePorts" /\ ports # {}
    THEN {[sgs |-> sgs, sgByID |-> sgByID, sgDel |-> sgDel] :
             sgs \in [ports -> SGAttachments], sgByID \in SGCaches,
             sgDel \in [{g \in SGroups :
                            cloudProviderSGNameRegexpMatchString(SGName(g))}
                        -> DelResp]}
    ELSE {[sgs |-> << >>, sgByID |-> << >>, sgDel |-> << >>]}

\* The provider's answers to the calls of one invocation: pre for the calls
\* before the loop, and when those succeed del, del2 and aux for the calls about
\* each resource the loop visits.
Answers(kind, world, filter) ==
    {[pre |-> pre, del |-> << >>, del2 |-> << >>, aux |-> << >>, sgs |-> << >>,
      sgByID |-> << >>, sgDel |-> << >>] :
        pre \in PreResp \ {"ok"}}
    \cup
    {[pre |-> "ok", del |-> [id \in DOMAIN ans |-> ans[id].d], del2 |-> del2,
      aux |-> [id \in DOMAIN ans |-> ans[id].a], sgs |-> sg.sgs,
      sgByID |-> sg.sgByID, sgDel |-> sg.sgDel] :
        ans \in [Listed(kind, world, filter) -> AnswersOf(kind)],
        del2 \in [ListedTwice(kind, world, filter) -> DelResp],
        sg \in SGAnswers(kind, Listed(kind, world, filter))}

\* One invocation of the task by its retry wrapper.
TaskInvoke(kind) ==
    /\ ~tLast.ran
    /\ \E e \in Answers(kind, tWorld, tFilter) :
          LET p == TaskPass(kind, tWorld, tFilter, e)
          IN  /\ tLast' = p
              /\ tWorld' = {r \in tWorld : r.ID \notin Gone(p.calls)}
    /\ UNCHANGED <<tKind, tFilter, notTaskVars>>

\* The retry wrapper got (false, nil) from the invocation and, after its sleep,
\* is about to invoke the task again.
TaskRetry ==
    /\ tLast.ran
    /\ tLast.result = FF
    /\ tLast' = NoInvocation
    /\ UNCHANGED <<tKind, tFilter, tWorld, notTaskVars>>

\* One invocation of untagPrimaryNetwork by its retry wrapper.
UntagPrimaryNetwork ==
    /\ tKind = "untagPrimaryNetwork"
    /\ ~tLast.ran
    /\ \E e \in UntagAnswers(tWorld, InfraID) :
          LET p == untagPrimaryNetwork(tWorld, InfraID, e)
          IN  /\ tLast' = p
              /\ tWorld' = {r \in tWorld : r.ID \notin Untagged(p.calls)}
    /\ UNCHANGED <<tKind, tFilter, notTaskVars>>

\* One invocation of clearRouterInterfaces by its retry wrapper.
ClearRouterInterfaces ==
    /\ tKind = "clearRouterInterfaces"
    /\ ~tLast.ran
    /\ \E e \in ClearRouterAnswers(tWorld, tFilter) :
          tLast' = clearRouterInterfaces(tWorld, tFilter, e)
    /\ UNCHANGED <<tKind, tFilter, tWorld, notTaskVars>>

\* One invocation of cleanVIPsPorts by its retry wrapper.
CleanVIPsPorts ==
    /\ tKind = "cleanVIPsPorts"
    /\ ~tLast.ran
    /\ \E e \in CleanVIPsAnswers(tWorld, tFilter) :
          LET p == cleanVIPsPorts(tWorld, tFilter, e)
          IN  /\ tLast' = p
              /\ tWorld' = {r \in tWorld : r.ID \notin VIPsUntagged(p.calls)}
    /\ UNCHANGED <<tKind, tFilter, notTaskVars>>

DeleteServers ==
    /\ tKind = "deleteServers"
    /\ TaskInvoke("deleteServers")
DeleteServerGroups ==
    /\ tKind = "deleteServerGroups"
    /\ TaskInvoke("deleteServerGroups")
DeleteTrunks ==
    /\ tKind = "deleteTrunks"
    /\ TaskInvoke("deleteTrunks")
DeleteLoadBalancers ==
    /\ tKind = "deleteLoadBalancers"
    /\ TaskInvoke("deleteLoadBalancers")
DeletePorts ==
    /\ tKind = "deletePorts"
    /\ TaskInvoke("deletePorts")
DeleteSecurityGroups ==
    /\ tKind = "deleteSecurityGroups"
    /\ TaskInvoke("deleteSecurityGroups")
DeleteSubnets ==
    /\ tKind = "deleteSubnets"
    /\ TaskInvoke("deleteSubnets")
DeleteNetworks ==
    /\ tKind = "deleteNetworks"
    /\ TaskInvoke("deleteNetworks")
DeleteContainers ==
    /\ tKind = "deleteContainers"
    /\ TaskInvoke("deleteContainers")
DeleteVolumes ==
    /\ tKind = "deleteVolumes"
    /\ TaskInvoke("deleteVolumes")
DeleteVolumeSnapshots ==
    /\ tKind = "deleteVolumeSnapshots"
    /\ TaskInvoke("deleteVolumeSnapshots")
DeleteShares ==
    /\ tKind = "deleteShares"
    /\ TaskInvoke("deleteShares")
DeleteFloatingIPs ==
    /\ tKind = "deleteFloatingIPs"
    /\ TaskInvoke("deleteFloatingIPs")
DeleteImages ==
    /\ tKind = "deleteImages"
    /\ TaskInvoke("deleteImages")
DeleteRouters ==
    /\ tKind = "deleteRouters"
    /\ TaskInvoke("deleteRouters")

----------------------------------------------------------------------------
(* ClusterUninstaller.Run *)

\* The process is running: Run has not returned and logger.Fatalf has not ended it.
Alive == mainpc \in {"validate", "launch", "barrier", "routers", "untag"}

FreshRunner == [pc |-> "new", steps |-> RunnerSteps, last |-> NoResult, werr |-> Nil]
FreshRouter == [pc |-> "new", steps |-> RouterSteps, n |-> 0, last |-> NoResult]
\* nets: the networks carrying a primary-network tag; listed: the invocations of
\* untagPrimaryNetwork whose list call succeeded.
FreshUntag ==
    [pc |-> "new", steps |-> UntagSteps, n |-> 0, last |-> NoResult, nets |-> {},
     listed |-> 0]

\* The tagged networks the untag phase may find: none, one or two of the cluster.
PrimaryWorlds == SUBSET {r \in Catalog : r.owner = InfraID}

OrchInit ==
    /\ mainpc = "validate"
    /\ runner = [t \in Tasks |-> FreshRunner]
    /\ received = 0
    /\ router = FreshRouter
    /\ untag \in {[FreshUntag EXCEPT !.nets = W] : W \in PrimaryWorlds}
    /\ runErr = Nil

OrchIdle ==
    /\ mainpc = "idle"
    /\ runner = [t \in Tasks |-> FreshRunner]
    /\ received = 0
    /\ router = FreshRouter
    /\ untag = FreshUntag
    /\ runErr = Nil

\* validateCloud: Run returns its error before anything is launched.
ValidateCloud ==
    /\ mainpc = "validate"
    /\ \E ok \in BOOLEAN :
          IF ok
          THEN /\ mainpc' = "launch"
               /\ runErr' = runErr
          ELSE /\ mainpc' = "returned"
               /\ runErr' = "failed to validate the cloud"
    /\ UNCHANGED <<runner, received, router, untag, notOrchVars>>

\* for name, function := range deleteFuncs { go deleteRunner(...) }
Launch ==
    /\ mainpc = "launch"
    /\ mainpc' = "barrier"
    /\ runner' = [t \in Tasks |-> [runner[t] EXCEPT !.pc = "backoff"]]
    /\ UNCHANGED <<received, router, untag, runErr, notOrchVars>>

\* deleteRunner(t): one invocation of dFunction inside wait.ExponentialBackoff,
\* and what the backoff does with its result.
RunnerInvoke(t) ==
    /\ Alive
    /\ runner[t].pc = "backoff"
    /\ \E r \in DeleteFuncReturns :
          LET b == ExponentialBackoff(runner[t].steps, r) IN
          runner' = [runner EXCEPT ![t] =
                        IF b.returned
                        THEN [pc |-> DeleteRunnerAfter(b.err), steps |-> 0,
                              last |-> r, werr |-> b.err]
                        ELSE [pc |-> "backoff", steps |-> b.steps,
                              last |-> r, werr |-> Nil]]
    /\ UNCHANGED <<mainpc, received, router, untag, runErr, notOrchVars>>

\* logger.Fatalf in deleteRunner(t): the process exits.
RunnerFatal(t) ==
    /\ Alive
    /\ runner[t].pc = "fatal"
    /\ mainpc' = "exited"
    /\ UNCHANGED <<runner, received, router, untag, runErr, notOrchVars>>

BarrierCountShort == Cardinality(Tasks) - 1
\* len(deleteFuncs): the receives of the barrier loop
BarrierCount == Cardinality(Tasks)

\* channel <- deleteFuncName in deleteRunner(t) meeting res := <-returnChannel in
\* Run (the channel is unbuffered); after the last receive Run goes on to the
\* router phase.
Receive(t) ==
    /\ mainpc = "barrier"
    /\ received < BarrierCount
    /\ runner[t].pc = "send"
    /\ runner' = [runner EXCEPT ![t].pc = "done"]
    /\ received' = received + 1
    /\ mainpc' = IF received + 1 = BarrierCount THEN "routers" ELSE "barrier"
    /\ UNCHANGED <<router, untag, runErr, notOrchVars>>

\* deleteRouterRunner: one invocation of deleteRouters inside the backoff; when
\* the backoff returns, Run returns its error or goes on to untagRunner.
RouterInvoke ==
    /\ mainpc = "routers"
    /\ \E r \in DeleteRoutersReturns :
          LET b == ExponentialBackoff(router.steps, r)
              e == DeleteRouterRunnerReturn(b.err)
          IN
          IF b.returned
          THEN /\ router' = [pc |-> IF b.err = Nil THEN "ok" ELSE "failed",
                             steps |-> 0, n |-> router.n + 1, last |-> r]
               /\ mainpc' = IF e # Nil THEN "returned" ELSE "untag"
               /\ runErr' = e
          ELSE /\ router' = [pc |-> "backoff", steps |-> b.steps,
                             n |-> router.n + 1, last |-> r]
               /\ UNCHANGED <<mainpc, runErr>>
    /\ UNCHANGED <<runner, received, untag, notOrchVars>>

\* untagRunner: one invocation of untagPrimaryNetwork inside the backoff; when
\* the backoff returns, Run returns.
UntagInvoke ==
    /\ mainpc = "untag"
    /\ \E a \in UntagAnswers(untag.nets, InfraID) :
          LET p == untagPrimaryNetwork(untag.nets, InfraID, a)
              r == p.result
              b == ExponentialBackoff(untag.steps, r)
              e == UntagRunnerReturn(b.err)
              nets == {x \in untag.nets : x.ID \notin Untagged(p.calls)}
              listed == untag.listed + (IF a.pre = "ok" THEN 1 ELSE 0)
          IN
          IF b.returned
          THEN /\ untag' = [pc |-> IF b.err = Nil THEN "ok" ELSE "failed",
                            steps |-> 0, n |-> untag.n + 1, last |-> r,
                            nets |-> nets, listed |-> listed]
               /\ mainpc' = "returned"
               /\ runErr' = e
          ELSE /\ untag' = [pc |-> "backoff", steps |-> b.steps,
                            n |-> untag.n + 1, last |-> r,
                            nets |-> nets, listed |-> listed]
               /\ UNCHANGED <<mainpc, runErr>>
    /\ UNCHANGED <<runner, received, router, notOrchVars>>

----------------------------------------------------------------------------
(* One object-deletion unit of deleteContainers *)

\* The err of a BulkDelete call that got no response.
ErrBulkCall == "bulk delete call failed"

NoResponse == [NumberDeleted |-> 0, NumberNotFound |-> 0, Errors |-> 0]
NoBulkCall == [sent |-> << >>, err |-> Nil, response |-> NoResponse]

\* What the object store may answer to a bulk delete of n objects: each object
\* deleted, not found, refused with an error, or left out of the answer.
BulkResponses(n) ==
    {[NumberDeleted |-> d, NumberNotFound |-> f, Errors |-> e] :
        <<d, f, e>> \in {t \in (0..n) \X (0..n) \X (0..n) : t[1] + t[2] + t[3] <= n}}

\* objectsOnPage[k:]
SliceFrom(objects, k) == SubSeq(objects, k + 1, Len(objects))

UnitInit ==
    /\ objectsOnPage \in {[i \in 1..n |-> i] : n \in 0..MaxPage}
    /\ bulkResp = NoBulkCall
    /\ errCh = 0
    /\ bulkCalls = 0
    /\ unitpc = "loop"

UnitIdle ==
    /\ objectsOnPage = << >>
    /\ bulkResp = NoBulkCall
    /\ errCh = 0
    /\ bulkCalls = 0
    /\ unitpc = "idle"

\* One round of `for len(objectsOnPage) > 0`: the BulkDelete call; on err the
\* error goes to errCh and the unit returns; otherwise every entry of
\* resp.Errors goes to errCh and the list loses its first
\* NumberDeleted + NumberNotFound objects.
BulkDelete ==
    /\ unitpc = "loop"
    /\ Len(objectsOnPage) > 0
    /\ bulkCalls < MaxBulkCalls
    /\ bulkCalls' = bulkCalls + 1
    /\ \/ /\ bulkResp' = [sent |-> objectsOnPage, err |-> ErrBulkCall,
                          response |-> NoResponse]
          /\ errCh' = errCh + 1
          /\ unitpc' = "returned"
          /\ UNCHANGED objectsOnPage
       \/ \E r \in BulkResponses(Len(objectsOnPage)) :
             /\ bulkResp' = [sent |-> objectsOnPage, err |-> Nil, response |-> r]
             /\ errCh' = errCh + r.Errors
             /\ objectsOnPage' =
                   SliceFrom(objectsOnPage, r.NumberDeleted + r.NumberNotFound)
             /\ UNCHANGED unitpc
    /\ UNCHANGED notUnitVars

\* The loop's condition fails: the unit ends.
UnitEnd ==
    /\ unitpc = "loop"
    /\ Len(objectsOnPage) = 0
    /\ unitpc' = "done"
    /\ UNCHANGED <<objectsOnPage, bulkResp, errCh, bulkCalls, notUnitVars>>

----------------------------------------------------------------------------
(* deleteNetworks on one network that is in use *)

\* The network of the cluster.
NetworkID == 91

\* "Kubernetes external service", the start of the description of a load
\* balancer cloud-provider-openstack created
KubernetesPrefix == << "Kubernetes external service" >>

\* The load balancers whose VIP is on the network: two created for services of
\* the cluster, one of the user.
LBCatalog ==
    { [ID |-> 51, Description |-> << "Kubernetes external service", " ns/a" >>,
       VipPortID |-> 81],
      [ID |-> 52, Description |-> << "Kubernetes external service", " ns/b" >>,
       VipPortID |-> 82],
      [ID |-> 53, Description |-> << "my ", "Kubernetes external service" >>,
       VipPortID |-> 83] }

\* The floating IPs bound to the VIP ports.
FIPCatalog ==
    { [ID |-> 71, PortID |-> 81], [ID |-> 72, PortID |-> 82],
      [ID |-> 73, PortID |-> 82], [ID |-> 74, PortID |-> 83] }

\* The other ports left on the network.
PortCatalog == { [ID |-> 61], [ID |-> 62] }

\* A test that takes every load balancer for one of cloud-provider-openstack.
IsLeftoverAlways(loadbalancer) == TRUE

\* strings.HasPrefix(loadbalancer.Description, "Kubernetes external service")
IsLeftover(loadbalancer) == HasPrefix(loadbalancer.Description, KubernetesPrefix)

ErrPortFIPs == "floating IPs of the port not deleted"

RECURSIVE DeleteFIPs(_, _)
\* for _, fip := range fips of deletePortFIPs
DeleteFIPs(fips, e) ==
    IF fips = << >> THEN [calls |-> << >>, err |-> Nil]
    ELSE LET c == Call("deleteFIP", Head(fips).ID, e.fipDel[Head(fips).ID])
             rest == DeleteFIPs(Tail(fips), e)
         IN  IF c.resp = "error"
             THEN [calls |-> << c >>, err |-> ErrPortFIPs]
             ELSE [calls |-> << c >> \o rest.calls, err |-> rest.err]

\* deletePortFIPs: list the floating IPs of the port and delete each; the error
\* of the list or of the first delete that fails with other than not-found.
deletePortFIPs(portID, fips, e) ==
    IF e.fipList[portID] # "ok"
    THEN [calls |-> << Call("listFIPs", portID, "error") >>, err |-> ErrPortFIPs]
    ELSE LET d == DeleteFIPs(SortedSeq({f \in fips : f.PortID = portID}), e)
         IN  [calls |-> << Call("listFIPs", portID, "ok") >> \o d.calls,
              err |-> d.err]

RECURSIVE LeftoverLoop(_, _, _)
\* for _, loadbalancer := range allLoadBalancers
LeftoverLoop(allLoadBalancers, fips, e) ==
    IF allLoadBalancers = << >> THEN [calls |-> << >>, deleted |-> 0]
    ELSE LET loadbalancer == Head(allLoadBalancers)
             rest == LeftoverLoop(Tail(allLoadBalancers), fips, e)
             f == deletePortFIPs(loadbalancer.VipPortID, fips, e)
             d == e.lbDel[loadbalancer.ID]
         IN  IF ~IsLeftover(loadbalancer)
             THEN rest
             ELSE IF f.err # Nil
             THEN [calls |-> f.calls \o rest.calls, deleted |-> rest.deleted]
             ELSE [calls |-> f.calls \o << Call("deleteLB", loadbalancer.ID, d) >>
                                \o rest.calls,
                   deleted |-> rest.deleted
                               + (IF d \in {"ok", "notfound"} THEN 1 ELSE 0)]

\* deleted != len(allLoadBalancers), negated
AllDeleted(deleted, allLoadBalancers) == deleted = Len(allLoadBalancers)

\* deleteLeftoverLoadBalancers with the load balancers and floating IPs the
\* provider holds: nil when the endpoint is not registered or when as many load
\* balancers were deleted as the list held.
LeftoverLoadBalancers(lbs, fips, e) ==
    LET client == Call("loadBalancerClient", NetworkID, e.lbpre)
        allLoadBalancers == SortedSeq(lbs)
        l == LeftoverLoop(allLoadBalancers, fips, e)
    IN  CASE e.lbpre = "endpointNotFound" -> [calls |-> << client >>, err |-> Nil]
          [] e.lbpre # "ok" ->
                [calls |-> << client >>, err |-> ErrLeftoverLoadBalancers]
          [] OTHER ->
                [calls |-> << client >> \o l.calls,
                 err |-> IF AllDeleted(l.deleted, allLoadBalancers) THEN Nil
                         ELSE ErrLeftoverLoadBalancers]

\* A port cleanup that deletes nothing.
NoPortsCleanup(netPorts, e) == << >>

\* deletePortsByNetwork: a delete for every port still on the network; its
\* result is not looked at by deleteNetworks.
deletePortsByNetwork(netPorts, e) ==
    LET allPorts == SortedSeq(netPorts)
    IN  [i \in 1..Len(allPorts) |->
            Call("deletePort", allPorts[i].ID, e.portDel[allPorts[i].ID])]

\* The provider's answer to the delete of the network: in use while a load
\* balancer or a port is left on it.
NetworkDeleteResp(state) ==
    IF state.lbs # {} \/ state.ports # {} THEN "conflict" ELSE "ok"

\* One invocation of deleteNetworks against the provider `state`.
deleteNetworksPass(state, e) ==
    LET head == [ran |-> TRUE, before |-> state, calls |-> << >>, result |-> FF]
        d == NetworkDeleteResp(state)
        del == << Call("deleteNetwork", NetworkID, d) >>
        lb == LeftoverLoadBalancers(state.lbs, state.fips, e)
    IN  IF e.pre # "ok" THEN head
        ELSE IF ~state.net THEN [head EXCEPT !.result = FinalReturn("deleteNetworks", 0, 0)]
        ELSE IF d = "ok"
        THEN [head EXCEPT !.calls = del,
                          !.result = FinalReturn("deleteNetworks", 1, 1)]
        ELSE [head EXCEPT
                !.calls = del \o lb.calls
                             \o (IF lb.err = Nil
                                 THEN deletePortsByNetwork(state.ports, e)
                                 ELSE << >>),
                !.result = FinalReturn("deleteNetworks", 0, 1)]

\* The IDs a kind of call removed from the provider.
RemovedBy(calls, op, resps) ==
    {calls[i].id : i \in {j \in 1..Len(calls) :
                             calls[j].op = op /\ calls[j].resp \in resps}}

\* The provider after the calls of an invocation.
NetworkAfter(state, calls) ==
    [net |-> state.net /\ RemovedBy(calls, "deleteNetwork", {"ok"}) = {},
     lbs |-> {l \in state.lbs : l.ID \notin RemovedBy(calls, "deleteLB", {"ok", "notfound"})},
     fips |-> {f \in state.fips :
                  f.ID \notin RemovedBy(calls, "deleteFIP", {"ok", "notfound"})},
     ports |-> {q \in state.ports : q.ID \notin RemovedBy(calls, "deletePort", {"ok"})}]

\* An answer that says "ok" for every call the invocation does not make: after
\* a failed list or delete of a floating IP the rest of that load balancer, and
\* after a failed cleanup the ports.
AnswersOnlyCallsMade(state, e) ==
    /\ \A l \in state.lbs :
          LET own == {f \in state.fips : f.PortID = l.VipPortID}
              failed == \/ e.fipList[l.VipPortID] = "error"
                        \/ \E f \in own : e.fipDel[f.ID] = "error"
          IN  /\ e.fipList[l.VipPortID] = "error"
                    => \A f \in own : e.fipDel[f.ID] = "ok"
              /\ \A f, g \in own :
                    f.ID < g.ID /\ e.fipDel[f.ID] = "error" => e.fipDel[g.ID] = "ok"
              /\ failed => e.lbDel[l.ID] = "ok"
    /\ LeftoverLoadBalancers(state.lbs, state.fips, e).err # Nil
          => \A q \in state.ports : e.portDel[q.ID] = "ok"

\* The provider's answers to one invocation; the calls for a load balancer the
\* task leaves alone have one answer.
NetworkAnswers(state) ==
    LET vips == {l.VipPortID : l \in state.lbs}
        lbIDs == {l.ID : l \in state.lbs}
        fipIDs == {f.ID : f \in state.fips}
        portIDs == {q.ID : q \in state.ports}
        kept == {l \in state.lbs : ~HasPrefix(l.Description, KubernetesPrefix)}
        none == [pre |-> "ok", lbpre |-> "ok", fipList |-> [v \in vips |-> "ok"],
                 fipDel |-> [f \in fipIDs |-> "ok"], lbDel |-> [l \in lbIDs |-> "ok"],
                 portDel |-> [q \in portIDs |-> "ok"]]
    IN  {[none EXCEPT !.pre = "error"]}
        \cup (IF NetworkDeleteResp(state) = "ok" \/ ~state.net THEN {none}
              ELSE {[none EXCEPT !.lbpre = a] :
                       a \in {"clientError", "listError"}
                             \cup (IF state.lbs = {} THEN {"endpointNotFound"} ELSE {})}
                   \cup {e \in {[none EXCEPT !.fipList = fl, !.fipDel = fd,
                                            !.lbDel = ld, !.portDel = pd] :
                            fl \in {x \in [vips -> {"ok", "error"}] :
                                      \A l \in kept : x[l.VipPortID] = "ok"},
                            fd \in {x \in [fipIDs -> {"ok", "notfound", "error"}] :
                                      \A f \in state.fips :
                                         (\E l \in kept : l.VipPortID = f.PortID)
                                         => x[f.ID] = "ok"},
                            ld \in {x \in [lbIDs -> {"ok", "notfound", "error"}] :
                                      \A l \in kept : x[l.ID] = "ok"},
                            pd \in [portIDs -> {"ok", "error"}]} :
                          AnswersOnlyCallsMade(state, e)})

NoPass ==
    [ran |-> FALSE,
     before |-> [net |-> FALSE, lbs |-> {}, fips |-> {}, ports |-> {}],
     calls |-> << >>, result |-> NoResult]

NetInit ==
    /\ nState \in {[net |-> TRUE, lbs |-> L, fips |-> F, ports |-> P] :
                      L \in SUBSET LBCatalog, P \in SUBSET PortCatalog,
                      F \in SUBSET FIPCatalog}
    /\ \A f \in nState.fips : \E l \in nState.lbs : l.VipPortID = f.PortID
    /\ nLast = NoPass
    /\ nPrev = NoPass

NetIdle ==
    /\ nState = NoPass.before
    /\ nLast = NoPass
    /\ nPrev = NoPass

\* One invocation of deleteNetworks by its retry wrapper.
NetworkInvoke ==
    /\ ~nLast.ran
    /\ \E e \in NetworkAnswers(nState) :
          LET p == deleteNetworksPass(nState, e)
          IN  /\ nLast' = p
              /\ nState' = NetworkAfter(nState, p.calls)
    /\ UNCHANGED <<nPrev, notNetVars>>

\* The wrapper got (false, nil): it sleeps and invokes the task again.
NetworkRetry ==
    /\ nLast.ran
    /\ nLast.result = FF
    /\ nPrev' = nLast
    /\ nLast' = NoPass
    /\ UNCHANGED <<nState, notNetVars>>

----------------------------------------------------------------------------
(* The workers of deletePorts *)

Workers == 1..NumWorkers

\* The ports the list call may return: one with a floating IP, two that share
\* the group 11 of cloud-provider-openstack, one that is the parent of a trunk.
WorkerPortCatalog ==
    { [ID |-> 1, FIP |-> TRUE, SecurityGroups |-> << 11 >>, Trunk |-> FALSE],
      [ID |-> 2, FIP |-> FALSE, SecurityGroups |-> << 12, 11 >>, Trunk |-> FALSE],
      [ID |-> 3, FIP |-> FALSE, SecurityGroups |-> << >>, Trunk |-> TRUE] }

NoPort == [ID |-> 0, FIP |-> FALSE, SecurityGroups |-> << >>, Trunk |-> FALSE]

FreshWorker == [pc |-> "recv", port |-> NoPort, i |-> 0, localDeleted |-> 0]
FreshMain ==
    [pc |-> "feed", fed |-> 0, got |-> 0, numberDeleted |-> 0, result |-> NoResult]
FreshChannels == [ports |-> << >>, closed |-> FALSE, deleted |-> << >>]
FreshStatus ==
    [rcv |-> 0, fip |-> "none", detached |-> FALSE, tries |-> 0, del |-> "none",
     trunk |-> "none"]

\* fipByPort and sgByID as getFIPsByPort and getSGsByID build them from the
\* provider: empty when the list call failed.
CachesOf(provider, lists) ==
    [fipByPort |-> IF lists.fip THEN provider.fips ELSE {},
     sgByID |-> IF lists.sg THEN provider.sgs ELSE {},
     lists |-> lists]

WorkersInit ==
    /\ \E P \in SUBSET WorkerPortCatalog, lists \in [fip : BOOLEAN, sg : BOOLEAN] :
          /\ Cardinality(P) <= MaxPorts
          /\ wAllPorts = SortedSeq(P)
          /\ wProvider = [ports |-> {q.ID : q \in P},
                          fips |-> {q.ID : q \in {x \in P : x.FIP}},
                          sgs |-> {11, 12},
                          trunks |-> {q.ID : q \in {x \in P : x.Trunk}}]
          /\ wCaches = CachesOf(wProvider, lists)
          /\ wStatus = [id \in {q.ID : q \in P} |-> FreshStatus]
    /\ wWorkers = [w \in Workers |-> FreshWorker]
    /\ wChannels = FreshChannels
    /\ wMain = FreshMain
    /\ wPrev = [ran |-> FALSE, freed |-> {}]

WorkersIdle ==
    /\ wAllPorts = << >>
    /\ wProvider = [ports |-> {}, fips |-> {}, sgs |-> {}, trunks |-> {}]
    /\ wCaches = [fipByPort |-> {}, sgByID |-> {}, lists |-> [fip |-> FALSE, sg |-> FALSE]]
    /\ wWorkers = << >>
    /\ wChannels = FreshChannels
    /\ wMain = [FreshMain EXCEPT !.pc = "idle"]
    /\ wStatus = << >>
    /\ wPrev = [ran |-> FALSE, freed |-> {}]

\* for _, port := range allPorts { portsChannel <- port }: the send blocks while
\* the buffer is full.
Feed ==
    /\ wMain.pc = "feed"
    /\ wMain.fed < Len(wAllPorts)
    /\ Len(wChannels.ports) < NumWorkers
    /\ wChannels' = [wChannels EXCEPT !.ports = Append(@, wAllPorts[wMain.fed + 1])]
    /\ wMain' = [wMain EXCEPT !.fed = @ + 1]
    /\ UNCHANGED <<wAllPorts, wProvider, wCaches, wWorkers, wStatus, wPrev, notWorkerVars>>

\* close(portsChannel)
CloseChannel ==
    /\ wMain.pc = "feed"
    /\ wMain.fed = Len(wAllPorts)
    /\ wChannels' = [wChannels EXCEPT !.closed = TRUE]
    /\ wMain' = [wMain EXCEPT !.pc = "collect"]
    /\ UNCHANGED <<wAllPorts, wProvider, wCaches, wWorkers, wStatus, wPrev, notWorkerVars>>

\* numberDeleted += <-deletedChannel, workersNumber times, then the return.
Collect ==
    /\ wMain.pc = "collect"
    /\ wChannels.deleted # << >>
    /\ wChannels' = [wChannels EXCEPT !.deleted = Tail(@)]
    /\ LET n == wMain.numberDeleted + Head(wChannels.deleted)
           last == wMain.got + 1 = NumWorkers
       IN  wMain' = [wMain EXCEPT
                        !.numberDeleted = n,
                        !.got = @ + 1,
                        !.pc = IF last THEN "returned" ELSE @,
                        !.result = IF last
                                   THEN FinalReturn("deletePorts", n, Len(wAllPorts))
                                   ELSE @]
    /\ UNCHANGED <<wAllPorts, wProvider, wCaches, wWorkers, wStatus, wPrev, notWorkerVars>>

\* A receive that leaves the port in the channel.
ReceiveKeeping(buffer) == buffer

\* What a receive leaves in the buffer of portsChannel.
ReceiveFrom(buffer) == Tail(buffer)

\* Where the worker goes after the group at index i of the port's groups.
AfterGroup(worker) ==
    IF worker.i < Len(worker.port.SecurityGroups)
    THEN [worker EXCEPT !.pc = "sgRead", !.i = @ + 1]
    ELSE [worker EXCEPT !.pc = "delete", !.i = 0]

\* ports.Update with no security groups, whose result is not looked at, and
\* the start of the loop over the groups the port had.
Detach(worker) == AfterGroup([worker EXCEPT !.i = 0])

\* for port := range portsChannel: the next port, and the update that takes
\* its groups off unless a floating IP is cached for it; or, once the channel
\* is closed and empty, deletedChannel <- localDeleted.
WorkerReceive(w) ==
    /\ wMain.pc \in {"feed", "collect"}
    /\ wWorkers[w].pc = "recv"
    /\ \/ /\ wChannels.ports # << >>
          /\ LET port == Head(wChannels.ports)
                 cached == port.ID \in wCaches.fipByPort
             IN
             /\ wChannels' = [wChannels EXCEPT !.ports = ReceiveFrom(@)]
             /\ wWorkers' = [wWorkers EXCEPT
                   ![w] = IF cached
                          THEN [@ EXCEPT !.port = port, !.pc = "fip"]
                          ELSE Detach([@ EXCEPT !.port = port])]
             /\ wStatus' = [wStatus EXCEPT
                   ![port.ID].rcv = @ + 1,
                   ![port.ID].detached = ~cached]
       \/ /\ wChannels.ports = << >>
          /\ wChannels.closed
          /\ Len(wChannels.deleted) < NumWorkers
          /\ wChannels' = [wChannels EXCEPT
                !.deleted = Append(@, wWorkers[w].localDeleted)]
          /\ wWorkers' = [wWorkers EXCEPT ![w].pc = "done"]
          /\ UNCHANGED wStatus
    /\ UNCHANGED <<wAllPorts, wProvider, wCaches, wMain, wPrev, notWorkerVars>>

\* A test that goes on with the port whatever the floating IP update answered.
GoesOnAlways(a) == TRUE

\* err == nil || ResponseCodeIs(err, http.StatusNotFound) after floatingips.Update
GoesOnAfterUpdate(a) == a \in {"ok", "notfound"}

\* The update that dissociates the floating IP cached for the port; an error
\* other than not-found goes on to the next port, else the port's groups are
\* taken off.
WorkerFIP(w) ==
    /\ wMain.pc \in {"feed", "collect"}
    /\ wWorkers[w].pc = "fip"
    /\ \E a \in {"ok", "notfound", "error"} :
          LET id == wWorkers[w].port.ID IN
          /\ wStatus' = [wStatus EXCEPT
                ![id].fip = a,
                ![id].detached = GoesOnAfterUpdate(a)]
          /\ wProvider' = [wProvider EXCEPT
                              !.fips = IF a = "error" THEN @ ELSE @ \ {id}]
          /\ wWorkers' = [wWorkers EXCEPT
                ![w] = IF GoesOnAfterUpdate(a) THEN Detach(@) ELSE [@ EXCEPT !.pc = "recv"]]
    /\ UNCHANGED <<wAllPorts, wCaches, wChannels, wMain, wPrev, notWorkerVars>>

\* group, ok := sgByID[groupID] and the match of the group's name.
WorkerGroupRead(w) ==
    /\ wMain.pc \in {"feed", "collect"}
    /\ wWorkers[w].pc = "sgRead"
    /\ LET groupID == wWorkers[w].port.SecurityGroups[wWorkers[w].i] IN
       wWorkers' = [wWorkers EXCEPT
          ![w] = IF /\ groupID \in wCaches.sgByID
                    /\ cloudProviderSGNameRegexpMatchString(SGName(groupID))
                 THEN [@ EXCEPT !.pc = "sgDelete"]
                 ELSE AfterGroup(@)]
    /\ UNCHANGED <<wAllPorts, wProvider, wCaches, wChannels, wMain, wStatus, wPrev, notWorkerVars>>

\* sg.Delete: not-found once the group is gone, else success or a conflict.
WorkerGroupDelete(w) ==
    /\ wMain.pc \in {"feed", "collect"}
    /\ wWorkers[w].pc = "sgDelete"
    /\ LET groupID == wWorkers[w].port.SecurityGroups[wWorkers[w].i] IN
       \E a \in IF groupID \in wProvider.sgs THEN {"ok", "conflict"} ELSE {"notfound"} :
          /\ wProvider' = [wProvider EXCEPT !.sgs = IF a = "ok" THEN @ \ {groupID} ELSE @]
          /\ wWorkers' = [wWorkers EXCEPT
                ![w] = IF a \in {"ok", "notfound"}
                       THEN [@ EXCEPT !.pc = "sgWrite"]
                       ELSE AfterGroup(@)]
    /\ UNCHANGED <<wAllPorts, wCaches, wChannels, wMain, wStatus, wPrev, notWorkerVars>>

\* delete(sgByID, groupID)
WorkerGroupWrite(w) ==
    /\ wMain.pc \in {"feed", "collect"}
    /\ wWorkers[w].pc = "sgWrite"
    /\ LET groupID == wWorkers[w].port.SecurityGroups[wWorkers[w].i] IN
       wCaches' = [wCaches EXCEPT !.sgByID = @ \ {groupID}]
    /\ wWorkers' = [wWorkers EXCEPT ![w] = AfterGroup(@)]
    /\ UNCHANGED <<wAllPorts, wProvider, wChannels, wMain, wStatus, wPrev, notWorkerVars>>

\* Two workers are at sgByID at once, one of them to write: the Go runtime may
\* stop the process with "concurrent map read and map write".
MapRace ==
    \E w1, w2 \in Workers :
       /\ w1 # w2
       /\ wWorkers[w1].pc = "sgWrite"
       /\ wWorkers[w2].pc \in {"sgRead", "sgWrite"}

MapFatal ==
    /\ wMain.pc \in {"feed", "collect"}
    /\ MapRace
    /\ wMain' = [wMain EXCEPT !.pc = "fatal"]
    /\ UNCHANGED <<wAllPorts, wProvider, wCaches, wWorkers, wChannels, wStatus, wPrev, notWorkerVars>>

\* A trunk cleanup that does nothing.
NoTrunkCleanup(portID, trunks, a) == [status |-> "none", trunks |-> trunks]

\* deleteAssociatedTrunk: list the trunks with this parent port and delete
\* each; a: how the list and the delete answer.
deleteAssociatedTrunk(portID, trunks, a) ==
    CASE a = "listError" -> [status |-> "listError", trunks |-> trunks]
      [] portID \notin trunks -> [status |-> "noTrunk", trunks |-> trunks]
      [] a = "ok" -> [status |-> "deleted", trunks |-> trunks \ {portID}]
      [] OTHER -> [status |-> "deleteError", trunks |-> trunks]

\* The answers of the trunk list and delete calls that matter for the port.
TrunkAnswers(portID, trunks) ==
    IF portID \in trunks THEN {"ok", "listError", "error"} ELSE {"ok"}

\* ports.Delete: refused while the port is the parent of a trunk; on success
\* localDeleted++, on an error deleteAssociatedTrunk; then the next port.
WorkerDelete(w) ==
    /\ wMain.pc \in {"feed", "collect"}
    /\ wWorkers[w].pc = "delete"
    /\ LET id == wWorkers[w].port.ID IN
       \E a \in IF id \in wProvider.trunks THEN {"conflict"} ELSE {"ok", "error"} :
          \E b \in IF a = "ok" THEN {"none"} ELSE TrunkAnswers(id, wProvider.trunks) :
             LET t == IF a = "ok"
                      THEN [status |-> "none", trunks |-> wProvider.trunks]
                      ELSE deleteAssociatedTrunk(id, wProvider.trunks, b)
             IN
             /\ wStatus' = [wStatus EXCEPT
                   ![id].tries = @ + 1,
                   ![id].del = a,
                   ![id].trunk = t.status]
             /\ wProvider' = [wProvider EXCEPT
                   !.ports = IF a = "ok" THEN @ \ {id} ELSE @,
                   !.trunks = t.trunks]
             /\ wWorkers' = [wWorkers EXCEPT
                   ![w].pc = "recv",
                   ![w].localDeleted = IF a = "ok" THEN @ + 1 ELSE @]
    /\ UNCHANGED <<wAllPorts, wCaches, wChannels, wMain, wPrev, notWorkerVars>>

\* The wrapper got (false, nil): the next invocation lists the ports the
\* provider still holds and builds its caches anew.
PortsRetry ==
    /\ wMain.pc = "returned"
    /\ wMain.result = FF
    /\ wAllPorts' = SortedSeq({q \in WorkerPortCatalog : q.ID \in wProvider.ports})
    /\ wCaches' = CachesOf(wProvider, wCaches.lists)
    /\ wWorkers' = [w \in Workers |-> FreshWorker]
    /\ wChannels' = FreshChannels
    /\ wMain' = FreshMain
    /\ wStatus' = [id \in wProvider.ports |-> FreshStatus]
    /\ wPrev' = [ran |-> TRUE,
                 freed |-> {id \in DOMAIN wStatus :
                               /\ wStatus[id].del = "conflict"
                               /\ wStatus[id].trunk = "deleted"}]
    /\ UNCHANGED <<wProvider, notWorkerVars>>

----------------------------------------------------------------------------
(* The object-deletion queue of deleteContainers *)

\* newSemaphore(3)
QueueWidth == 3

FreshQueueMain == [pc |-> "pages", result |-> NoResult, deleted |-> FALSE]
FreshCollector == [started |-> FALSE, holding |-> FALSE]

QueueInit ==
    /\ qMain = FreshQueueMain
    /\ qPages \in 0..MaxQueuePages
    /\ qUnits = << >>
    /\ qCollector = FreshCollector
    /\ qErrs = 0

QueueIdle ==
    /\ qMain = [FreshQueueMain EXCEPT !.pc = "idle"]
    /\ qPages = 0
    /\ qUnits = << >>
    /\ qCollector = FreshCollector
    /\ qErrs = 0

\* The units that hold a slot of the semaphore.
Running == {u \in DOMAIN qUnits : qUnits[u].pc # "done"}

\* The semaphore has a free slot: fewer than its width units are running.
HasSlot(running) == Cardinality(running) < QueueWidth

\* EachPage fetched the next page and calls the callback with it.
EachPageFetch ==
    /\ qMain.pc = "pages"
    /\ qPages > 0
    /\ qMain' = [qMain EXCEPT !.pc = "add"]
    /\ UNCHANGED <<qPages, qUnits, qCollector, qErrs, notQueueVars>>

\* queue.Add inside the callback of EachPage: the page's unit starts once the
\* semaphore has a slot for it; until then the callback, and with it EachPage,
\* waits.
QueueAdd ==
    /\ qMain.pc = "add"
    /\ HasSlot(Running)
    /\ qPages' = qPages - 1
    /\ qUnits' = Append(qUnits, [pc |-> "call", toSend |-> 0, sent |-> 0])
    /\ qMain' = [qMain EXCEPT !.pc = "pages"]
    /\ UNCHANGED <<qCollector, qErrs, notQueueVars>>

\* EachPage returned nil: go func() { for err := range errCh ... }() starts the
\* collector, and deleteContainers goes to queue.Wait().
EachPageReturns ==
    /\ qMain.pc = "pages"
    /\ qPages = 0
    /\ qCollector' = [qCollector EXCEPT !.started = TRUE]
    /\ qMain' = [qMain EXCEPT !.pc = "wait"]
    /\ UNCHANGED <<qPages, qUnits, qErrs, notQueueVars>>

\* EachPage returned an error while fetching the next page: not-found is
\* passed over, any other error returns (false, nil) at once.
EachPageFails ==
    /\ qMain.pc = "pages"
    /\ qPages > 0
    /\ qPages' = 0
    /\ \E a \in {"notfound", "error"} :
          IF a = "notfound"
          THEN /\ qCollector' = [qCollector EXCEPT !.started = TRUE]
               /\ qMain' = [qMain EXCEPT !.pc = "wait"]
          ELSE /\ qMain' = [qMain EXCEPT !.pc = "returned", !.result = FF]
               /\ UNCHANGED qCollector
    /\ UNCHANGED <<qUnits, qErrs, notQueueVars>>

\* The bulk-delete calls of a unit up to its first error to send, n errors in
\* all; a unit with none ends and gives its slot back.
UnitCall(u) ==
    /\ u \in DOMAIN qUnits
    /\ qUnits[u].pc = "call"
    /\ \E n \in 0..MaxUnitErrors :
          qUnits' = [qUnits EXCEPT
                        ![u].toSend = n,
                        ![u].pc = IF n = 0 THEN "done" ELSE "send"]
    /\ UNCHANGED <<qMain, qPages, qCollector, qErrs, notQueueVars>>

\* errCh <- err meets the collector's receive: errCh has no buffer, so the send
\* waits for a collector that runs and is at its receive. After its last error
\* the unit ends and gives its slot back.
UnitSend(u) ==
    /\ u \in DOMAIN qUnits
    /\ qUnits[u].pc = "send"
    /\ qCollector.started
    /\ ~qCollector.holding
    /\ qCollector' = [qCollector EXCEPT !.holding = TRUE]
    /\ qUnits' = [qUnits EXCEPT
                     ![u].toSend = @ - 1,
                     ![u].sent = @ + 1,
                     ![u].pc = IF qUnits[u].toSend = 1 THEN "done" ELSE "send"]
    /\ UNCHANGED <<qMain, qPages, qErrs, notQueueVars>>

\* errs = append(errs, err) in the collector
CollectorAppend ==
    /\ qCollector.holding
    /\ qErrs' = qErrs + 1
    /\ qCollector' = [qCollector EXCEPT !.holding = FALSE]
    /\ UNCHANGED <<qMain, qPages, qUnits, notQueueVars>>

\* queue.Wait() returns when every unit added has ended; close(errCh) follows.
QueueWait ==
    /\ qMain.pc = "wait"
    /\ Running = {}
    /\ qMain' = [qMain EXCEPT !.pc = "check"]
    /\ UNCHANGED <<qPages, qUnits, qCollector, qErrs, notQueueVars>>

\* if len(errs) > 0 { return false, fmt.Errorf(...) }: a read of errs that
\* nothing orders after the collector's append.
CheckErrs ==
    /\ qMain.pc = "check"
    /\ qMain' = IF qErrs > 0
                THEN [qMain EXCEPT !.pc = "returned",
                                   !.result = [done |-> FALSE, err |-> ErrBulkDelete]]
                ELSE [qMain EXCEPT !.pc = "delete"]
    /\ UNCHANGED <<qPages, qUnits, qCollector, qErrs, notQueueVars>>

\* containers.Delete: an error other than not-found returns (false, nil); else
\* the loop over the containers goes on to return (true, nil).
DeleteContainer ==
    /\ qMain.pc = "delete"
    /\ \E a \in {"ok", "notfound", "error"} :
          qMain' = [qMain EXCEPT
                       !.pc = "returned",
                       !.deleted = TRUE,
                       !.result = IF a = "error" THEN FF ELSE TT]
    /\ UNCHANGED <<qPages, qUnits, qCollector, qErrs, notQueueVars>>

----------------------------------------------------------------------------
(* Specifications *)

Init == OrchInit /\ BackoffIdle /\ FilterIdle /\ TaskIdle /\ UnitIdle /\ NetIdle /\ WorkersIdle
    /\ QueueIdle
Next ==
    \/ ValidateCloud
    \/ Launch
    \/ \E t \in Tasks : RunnerInvoke(t)
    \/ \E t \in Tasks : RunnerFatal(t)
    \/ \E t \in Tasks : Receive(t)
    \/ RouterInvoke
    \/ UntagInvoke
Spec == Init /\ [][Next]_vars
\* The Go scheduler runs every runnable goroutine and every provider call
\* returns, so a step that can be taken is eventually taken.
FairSpec == Spec /\ WF_vars(Next)

InitBackoff == BackoffInit /\ OrchIdle /\ FilterIdle /\ TaskIdle /\ UnitIdle /\ NetIdle /\ WorkersIdle
    /\ QueueIdle
NextBackoff == BackoffInvoke
SpecBackoff == InitBackoff /\ [][NextBackoff]_vars

InitFilter == FilterInit /\ OrchIdle /\ BackoffIdle /\ TaskIdle /\ UnitIdle /\ NetIdle /\ WorkersIdle
    /\ QueueIdle
NextFilter == FilterCall
SpecFilter == InitFilter /\ [][NextFilter]_vars

InitTasks == TaskInit /\ OrchIdle /\ BackoffIdle /\ FilterIdle /\ UnitIdle /\ NetIdle /\ WorkersIdle
    /\ QueueIdle
NextTasks ==
    \/ DeleteServers
    \/ DeleteServerGroups
    \/ DeleteTrunks
    \/ DeleteLoadBalancers
    \/ DeletePorts
    \/ DeleteSecurityGroups
    \/ DeleteSubnets
    \/ DeleteNetworks
    \/ DeleteContainers
    \/ DeleteVolumes
    \/ DeleteVolumeSnapshots
    \/ DeleteShares
    \/ DeleteFloatingIPs
    \/ DeleteImages
    \/ DeleteRouters
    \/ UntagPrimaryNetwork
    \/ ClearRouterInterfaces
    \/ CleanVIPsPorts
    \/ TaskRetry
SpecTasks == InitTasks /\ [][NextTasks]_vars

InitUnit == UnitInit /\ OrchIdle /\ BackoffIdle /\ FilterIdle /\ TaskIdle /\ NetIdle /\ WorkersIdle
    /\ QueueIdle
NextUnit ==
    \/ BulkDelete
    \/ UnitEnd
SpecUnit == InitUnit /\ [][NextUnit]_vars

InitNetwork ==
    /\ NetInit /\ OrchIdle /\ BackoffIdle /\ FilterIdle /\ TaskIdle /\ UnitIdle
    /\ WorkersIdle /\ QueueIdle
NextNetwork ==
    \/ NetworkInvoke
    \/ NetworkRetry
SpecNetwork == InitNetwork /\ [][NextNetwork]_vars

InitWorkers ==
    /\ WorkersInit /\ OrchIdle /\ BackoffIdle /\ FilterIdle /\ TaskIdle /\ UnitIdle
    /\ NetIdle /\ QueueIdle
NextWorkers ==
    \/ Feed
    \/ CloseChannel
    \/ Collect
    \/ PortsRetry
    \/ MapFatal
    \/ \E w \in Workers :
          \/ WorkerReceive(w)
          \/ WorkerFIP(w)
          \/ WorkerGroupRead(w)
          \/ WorkerGroupDelete(w)
          \/ WorkerGroupWrite(w)
          \/ WorkerDelete(w)
SpecWorkers == InitWorkers /\ [][NextWorkers]_vars

InitQueue ==
    /\ QueueInit /\ OrchIdle /\ BackoffIdle /\ FilterIdle /\ TaskIdle /\ UnitIdle
    /\ NetIdle /\ WorkersIdle
NextQueue ==
    \/ EachPageFetch
    \/ QueueAdd
    \/ EachPageReturns
    \/ EachPageFails
    \/ QueueWait
    \/ CheckErrs
    \/ DeleteContainer
    \/ CollectorAppend
    \/ \E u \in 1..MaxQueuePages :
          \/ UnitCall(u)
          \/ UnitSend(u)
SpecQueue == InitQueue /\ [][NextQueue]_vars

----------------------------------------------------------------------------
(* Properties of Run (Spec, FairSpec) *)

AllSent == received = Cardinality(Tasks) /\ \A t \in Tasks : runner[t].pc = "done"

\* C1: deleteRouters is never invoked (so none of its floating-IP updates,
\* gateway clears or router deletes is issued) before every launched deleteRunner
\* has sent its completion signal and Run has received it.
C1_RoutersAfterBarrier == router.n > 0 => AllSent

C1_Witness == router.n > 0 /\ AllSent

\* C2: untagPrimaryNetwork is invoked only after the router wrapper ended with
\* success; when the router wrapper ends with an error, Run has returned that
\* error and untagPrimaryNetwork was never invoked.
C2_SequentialPhases ==
    /\ untag.n > 0 => (router.pc = "ok" /\ router.last = TT)
    /\ router.pc = "failed" =>
          /\ mainpc = "returned"
          /\ runErr \in {ErrWaitTimeout, ErrUnrecoverable}
          /\ untag.n = 0

C2_Witness == router.pc = "failed" /\ mainpc = "returned"

\* C5: once the wrapper of a parallel-phase task has ended in failure (task
\* error or retry budget exhausted), deleteRouters and untagPrimaryNetwork are
\* never invoked and Run does not return: the process is at the barrier or has
\* exited.
C5_RunnerFailureHalts ==
    \A t \in Tasks :
        runner[t].werr # Nil =>
            /\ router.n = 0
            /\ untag.n = 0
            /\ mainpc \in {"barrier", "exited"}

C5_Witness ==
    /\ mainpc = "exited"
    /\ \E t \in Tasks : runner[t].werr = ErrWaitTimeout
    /\ \E t \in Tasks : runner[t].pc = "done"

AllSucceeded ==
    /\ \A t \in Tasks : runner[t].pc = "done" /\ runner[t].last = TT
    /\ router.pc = "ok" /\ router.last = TT
    /\ untag.pc = "ok" /\ untag.last = TT

Ended == mainpc \in {"returned", "exited"}

----------------------------------------------------------------------------
(* Properties of a retry wrapper (SpecBackoff) *)

\* The wrapper reported a failure: deleteRunner ended the process, the other two
\* returned a non-nil error.
ReportedFailure ==
    IF bKind = "deleteRunner" THEN bEnd = "fatal" ELSE bEnd \notin {Nil, "running"}

ReportedSuccess ==
    IF bKind = "deleteRunner" THEN bEnd = "send" ELSE bEnd = Nil

LastResult == bHist[Len(bHist)]

\* C3: every invocation but the last returned (false, nil), so the task is never
\* invoked after a (true, nil) or an error; after a (false, nil) within the
\* budget the wrapper is still looping; a (true, nil) ends it with success and an
\* error ends it with a reported failure carrying that error.
C3_RetryUntilDoneOrError ==
    /\ \A i \in 1..(Len(bHist) - 1) : bHist[i] = FF
    /\ Len(bHist) > 0 =>
          /\ (LastResult = FF /\ Len(bHist) < StepsOf(bKind)) => bpc = "loop"
          /\ LastResult = TT => (bpc = "ended" /\ bErr = Nil /\ ReportedSuccess)
          /\ LastResult.err # Nil =>
                (bpc = "ended" /\ bErr = LastResult.err /\ ReportedFailure)

C3_Witness ==
    /\ bKind = "deleteRunner"
    /\ Len(bHist) = 3
    /\ bHist[1] = FF /\ bHist[2] = FF /\ bHist[3] = ERR
    /\ bpc = "ended"

\* maxSteps as the retry policy states it
MaxStepsClaimed == 25

\* C4: a wrapper invokes its task at most 25 times, and 25 (false, nil) returns
\* end it with the timeout error, reported as a failure.
C4_AtMostMaxSteps ==
    /\ Len(bHist) <= MaxStepsClaimed
    /\ (Len(bHist) = MaxStepsClaimed /\ \A i \in 1..Len(bHist) : bHist[i] = FF) =>
          (bpc = "ended" /\ bErr = ErrWaitTimeout /\ ReportedFailure)

C4_Witness ==
    /\ Len(bHist) = MaxStepsClaimed
    /\ \A i \in 1..Len(bHist) : bHist[i] = FF
    /\ bpc = "ended"

----------------------------------------------------------------------------
(* Properties of filterObjects (SpecFilter) *)

\* The tags hold every key of the filter with an equal value.
TagsMatch(tags, filters) ==
    \A key \in DOMAIN filters : key \in DOMAIN tags /\ tags[key] = filters[key]

ObjectMatches(o) == TagsMatch(o.Tags, fFilter)

\* C7: filterObjects returns exactly the objects whose Tags hold every key of the
\* filter with an equal value, in their order, and the call leaves the objects
\* and the filter as they were.
C7_FilterObjectsExact ==
    /\ [](fpc = "done" => fResult = SelectSeq(fObjects, ObjectMatches))
    /\ [][fObjects' = fObjects /\ fFilter' = fFilter]_vars

C7_Witness ==
    /\ fpc = "done"
    /\ fFilter = [k \in {"a"} |-> "1"]
    /\ Len(fObjects) = 3
    /\ fObjects[1].Tags = [k \in {"a", "b"} |-> "1"]
    /\ fObjects[2].Tags = [k \in {"b"} |-> "1"]
    /\ fObjects[3].Tags = [k \in {"a"} |-> ""]
    /\ fResult = << fObjects[1] >>

DeleteCalls(p) == {i \in 1..Len(p.calls) : p.calls[i].op = "delete"}
OtherCalls(p) == {i \in 1..Len(p.calls) : p.calls[i].op # "delete"}

\* C8: when the calls before the loop succeed, every delete call of the invocation
\* answers success or not-found and every other call succeeds, the task returns
\* (true, nil): a candidate answered not-found is counted as deleted.
C8_NotFoundCountsAsDeleted ==
    ( /\ tLast.ran
      /\ tLast.kind \in TaskKinds
      /\ tLast.pre = "ok"
      /\ \A i \in DeleteCalls(tLast) : tLast.calls[i].resp \in {"ok", "notfound"}
      /\ \A i \in OtherCalls(tLast) : tLast.calls[i].resp = "ok" )
    => tLast.result = TT

\* C9: an invocation returns (true, nil) only if every candidate it selected got
\* a delete call answered success or not-found; when a delete call failed with
\* conflict or another error the invocation returns (false, nil) and the
\* candidate, unless another delete call of the invocation removed it, is listed
\* again by the next invocation.
C9_TrueOnlyIfAllDeleted ==
    (tLast.ran /\ tLast.kind \in TaskKinds) =>
       /\ tLast.result = TT =>
             \A id \in tLast.selected :
                \E i \in DeleteCalls(tLast) :
                   /\ tLast.calls[i].id = id
                   /\ tLast.calls[i].resp \in {"ok", "notfound"}
       /\ \A i \in DeleteCalls(tLast) :
             tLast.calls[i].resp \in {"conflict", "error"} =>
                /\ tLast.result = FF
                /\ tLast.calls[i].id \notin Gone(tLast.calls) =>
                      LET again == Listing(tKind, tWorld, tFilter)
                      IN  \E j \in 1..Len(again) : again[j].ID = tLast.calls[i].id

\* C10: no invocation of a per-kind task returns a non-nil error, whatever
\* provider call failed, the bulk deletion of a container's objects included.
C10_TaskNeverReturnsError ==
    (tLast.ran /\ tLast.kind \in TaskKinds) => tLast.result.err = Nil

\* C15: deleteServers issues a delete call for a server exactly when the
\* server's metadata holds every key of the filter with the filter's value, and
\* returns (true, nil) when each of these delete calls succeeds.
C15_ServersDeletedIffMatching ==
    (tLast.ran /\ tLast.kind = "deleteServers" /\ tLast.pre = "ok") =>
       LET matching ==
              {r.ID : r \in {x \in tLast.world :
                    \A k \in DOMAIN tFilter :
                       /\ k \in DOMAIN MetadataOf(x, ClusterKey)
                       /\ MetadataOf(x, ClusterKey)[k] = tFilter[k]}}
           deleted == {tLast.calls[i].id : i \in DeleteCalls(tLast)}
       IN  /\ deleted = matching
           /\ (\A i \in DeleteCalls(tLast) : tLast.calls[i].resp = "ok")
                 => tLast.result = TT

\* Servers of the clusters abc and xyz, filter abc: only the first is deleted.
C15_Witness ==
    /\ tLast.ran /\ tLast.kind = "deleteServers"
    /\ {r.owner : r \in tLast.world} = {"abc", "xyz"}
    /\ tLast.calls = << Call("delete", 1, "ok") >>
    /\ tLast.result = TT
    /\ {r.owner : r \in tWorld} = {"xyz"}

\* The networks of the invocation's world that carry the cluster's
\* primary-network tag.
PrimaryMatches(world) == {r.ID : r \in {x \in world : x.owner = InfraID}}
TagCalls(p) == {i \in 1..Len(p.calls) : p.calls[i].op = "deleteTag"}

\* C12: when its list succeeds, untagPrimaryNetwork returns (true, nil) without
\* a tag-removal call on zero matches, returns a non-nil error without a
\* tag-removal call on more than one match, and issues a tag-removal call only
\* when exactly one network matches, once and on that network.
C12_UntagByMatchCount ==
    (tLast.ran /\ tLast.kind = "untagPrimaryNetwork" /\ tLast.pre = "ok") =>
       LET m == PrimaryMatches(tLast.world) IN
       /\ m = {} => (tLast.result = TT /\ tLast.calls = << >>)
       /\ Cardinality(m) > 1 =>
             (tLast.result.err \notin {Nil, "none"} /\ tLast.calls = << >>)
       /\ \A i \in 1..Len(tLast.calls) :
             /\ tLast.calls[i].op = "deleteTag"
             /\ m = {tLast.calls[i].id}
             /\ Len(tLast.calls) = 1

\* Two networks carry the tag: the invocation returns the error and leaves both.
C12_Witness ==
    /\ tLast.ran /\ tLast.kind = "untagPrimaryNetwork" /\ tLast.pre = "ok"
    /\ Cardinality(PrimaryMatches(tLast.world)) = 2
    /\ tLast.result = [done |-> FALSE, err |-> ErrMoreThanOne]
    /\ tWorld = tLast.world

\* C13: with exactly one tagged network and the tag-removal call answering
\* not-found, untagPrimaryNetwork returns (true, nil).
C13_TagNotFoundIsSuccess ==
    ( /\ tLast.ran /\ tLast.kind = "untagPrimaryNetwork" /\ tLast.pre = "ok"
      /\ Cardinality(PrimaryMatches(tLast.world)) = 1
      /\ \E i \in TagCalls(tLast) : tLast.calls[i].resp = "notfound" )
    => tLast.result = TT

C17_PortsOnlyAfterLoadBalancers ==
    (tLast.ran /\ tLast.kind = "deleteNetworks") =>
       LET c == tLast.calls
           LBFailed(j) ==
              \/ c[j].op = "loadBalancerClient" /\ c[j].resp = "error"
              \/ c[j].op = "deleteLoadBalancers" /\ c[j].resp = "error"
           LBSucceeded(j) ==
              \/ c[j].op = "loadBalancerClient" /\ c[j].resp = "endpointNotFound"
              \/ c[j].op = "deleteLoadBalancers" /\ c[j].resp = "ok"
       IN
       /\ \A i \in 1..Len(c) :
             c[i].op = "deletePortsByNetwork" =>
                /\ i > 1 /\ c[i - 1].id = c[i].id /\ LBSucceeded(i - 1)
                /\ \E j \in 1..(i - 1) :
                      /\ c[j].op = "delete" /\ c[j].id = c[i].id
                      /\ c[j].resp \in {"conflict", "error"}
                /\ \A j \in 1..Len(c) : c[j].id = c[i].id => ~LBFailed(j)
       /\ \A j \in 1..Len(c) :
             LBFailed(j) =>
                /\ \A i \in 1..Len(c) :
                      c[i].op = "deletePortsByNetwork" => c[i].id # c[j].id
                /\ c[j].id \in Listed("deleteNetworks", tWorld, tFilter)
                /\ tLast.result = FF

\* One network's load balancer cleanup fails and its ports are left alone, the
\* next network's cleanup succeeds and its ports are cleaned.
C17_Witness ==
    /\ tLast.ran /\ tLast.kind = "deleteNetworks"
    /\ tLast.calls =
          << Call("delete", 1, "conflict"), Call("loadBalancerClient", 1, "ok"),
             Call("deleteLoadBalancers", 1, "error"),
             Call("delete", 3, "conflict"), Call("loadBalancerClient", 3, "ok"),
             Call("deleteLoadBalancers", 3, "ok"),
             Call("deletePortsByNetwork", 3, "ok") >>

\* C20: when the endpoint of their service is not registered, deleteLoadBalancers,
\* deleteContainers and deleteShares return (true, nil) without a list or delete
\* call and deleteLeftoverLoadBalancers returns nil (deleteNetworks goes on to
\* the port cleanup); another client-creation error gives (false, nil), and an
\* error of deleteLeftoverLoadBalancers (no port cleanup).
C20_OptionalServiceAbsent ==
    tLast.ran =>
       /\ (tLast.kind \in {"deleteLoadBalancers", "deleteContainers", "deleteShares"}
              /\ tLast.pre = "endpointNotFound")
             => (tLast.result = TT /\ tLast.calls = << >> /\ tWorld = tLast.world)
       /\ (tLast.kind \in {"deleteLoadBalancers", "deleteContainers", "deleteShares"}
              /\ tLast.pre = "clientError")
             => (tLast.result = FF /\ tLast.calls = << >>)
       /\ \A i \in 1..Len(tLast.calls) :
             LET c == tLast.calls IN
             c[i].op = "loadBalancerClient" =>
                CASE c[i].resp = "endpointNotFound" ->
                        /\ i < Len(c)
                        /\ c[i + 1] = Call("deletePortsByNetwork", c[i].id, "ok")
                  [] c[i].resp = "error" ->
                        i < Len(c) => c[i + 1].id # c[i].id
                  [] OTHER -> i < Len(c) /\ c[i + 1].op = "deleteLoadBalancers"

\* The object-storage endpoint is not registered while containers are held.
C20_Witness ==
    /\ tLast.ran /\ tLast.kind = "deleteContainers"
    /\ tLast.pre = "endpointNotFound"
    /\ tLast.world # {}
    /\ tLast.result = TT

\* The ports whose security groups the invocation detached before call i.
PortsProcessedBefore(p, i) ==
    {p.calls[j].id : j \in {k \in 1..(i - 1) : p.calls[k].op = "updatePort"}}

\* C16: the ports task deletes a security group only if the group was attached
\* to a port it processed and the group's name matches the pattern of the
\* managed load-balancer groups (lb-sg-<uuid> at its start); no other group
\* attached to a processed port gets a delete call.
C16_OnlyManagedGroupsDeleted ==
    (tLast.ran /\ tLast.kind = "deletePorts") =>
       \A i \in 1..Len(tLast.calls) :
          tLast.calls[i].op = "deleteSG" =>
             LET g == tLast.calls[i].id
                 name == SGName(g)
             IN  /\ \E port \in PortsProcessedBefore(tLast, i) :
                       \E k \in 1..Len(tLast.facts.SecurityGroups[port]) :
                          tLast.facts.SecurityGroups[port][k] = g
                 /\ Len(name) >= 2
                 /\ name[1] = "lb-sg-"
                 /\ name[2] = UUID

\* A port with a cluster group and a managed group: only the managed one is
\* deleted; a port with three groups of other names, one a managed one.
C16_Witness ==
    /\ tLast.ran /\ tLast.kind = "deletePorts" /\ tLast.pre = "ok"
    /\ DOMAIN tLast.facts.SecurityGroups = {1, 3}
    /\ tLast.facts.SecurityGroups = (1 :> << 12, 11 >> @@ 3 :> << 13, 14, 15 >>)
    /\ tLast.calls =
          << Call("updatePort", 1, "ok"), Call("deleteSG", 11, "ok"),
             Call("delete", 1, "ok"),
             Call("updatePort", 3, "ok"), Call("deleteSG", 15, "conflict"),
             Call("delete", 3, "ok") >>
    /\ tLast.result = TT

\* C18: for a foreign router (no tag of it equals openshiftClusterID=<cluster
\* id>) every remove-interface call names a subnet of the list of
\* cluster-tagged subnets.
C18_ForeignRouterKeepsCustomInterfaces ==
    ( /\ tLast.ran /\ tLast.kind = "clearRouterInterfaces"
      /\ tLast.selected = {RouterID}
      /\ <<ClusterKey, tFilter[ClusterKey]>> \notin tLast.facts.Tags )
    => \A i \in 1..Len(tLast.calls) :
          tLast.calls[i].op = "removeInterface" =>
             \E k \in 1..Len(tLast.facts.subnets) :
                tLast.facts.subnets[k] = tLast.calls[i].id

\* A foreign router with an interface on the cluster's subnet 21 and one on the
\* user's subnet 22: only the first is removed.
C18_Witness ==
    /\ tLast.ran /\ tLast.kind = "clearRouterInterfaces"
    /\ tLast.selected = {RouterID}
    /\ tLast.facts.Tags = {<<ClusterKey, "abcd">>}
    /\ tLast.facts.subnets = << 21 >>
    /\ tLast.facts.ports = << RouterPort(31, << 21 >>), RouterPort(32, << 22 >>) >>
    /\ \E i \in 1..Len(tLast.calls) :
          tLast.calls[i] = Call("removeInterface", 21, "ok")
    /\ tLast.result = TT

\* The retry wrapper Run starts a task in.
WrapperOf(kind) ==
    CASE kind = "deleteRouters" -> "deleteRouterRunner"
      [] kind = "untagPrimaryNetwork" -> "untagRunner"
      [] OTHER -> "deleteRunner"

\* C11: against a provider that holds no resource and answers every client and
\* list call, each task of Run returns (true, nil) on its first invocation
\* without a delete, update or tag-removal call, so its wrapper ends at once:
\* deleteRunner sends its name, the other two return nil.
C11_EmptyProviderSucceeds ==
    (tLast.ran /\ tLast.pre = "ok" /\ tLast.world = {})
    => /\ tLast.result = TT
       /\ tLast.calls = << >>
       /\ LET b == ExponentialBackoff(StepsOf(WrapperOf(tLast.kind)), tLast.result)
          IN  /\ b.returned
              /\ b.err = Nil
              /\ EndOf(WrapperOf(tLast.kind), b.err) \in {"send", Nil}

\* clearRouterInterfaces invoked with no network at the provider.
C11_Witness ==
    /\ tLast.ran /\ tLast.kind = "clearRouterInterfaces"
    /\ tLast.pre = "ok" /\ tLast.world = {}
    /\ tLast.result = TT /\ tLast.calls = << >>

\* C19: every bulk-delete call of an object-deletion unit sends a non-empty
\* list, and after a call the object store answered the list is shorter by
\* exactly NumberDeleted + NumberNotFound of the response, which is at least one.
C19_BatchShrinksByAtLeastOne ==
    [][bulkCalls' = bulkCalls + 1 /\ bulkResp'.err = Nil =>
          /\ Len(bulkResp'.sent) > 0
          /\ Len(objectsOnPage') =
                Len(objectsOnPage)
                - (bulkResp'.response.NumberDeleted + bulkResp'.response.NumberNotFound)
          /\ bulkResp'.response.NumberDeleted + bulkResp'.response.NumberNotFound >= 1]_vars

\* The remove-interface calls of the last invocation, by position.
RemoveCalls == {i \in 1..Len(tLast.calls) : tLast.calls[i].op = "removeInterface"}

\* The last invocation reached removeRouterInterfaces and its two lists succeeded.
RouterInterfacesListed ==
    /\ tLast.ran /\ tLast.kind = "clearRouterInterfaces"
    /\ tLast.selected = {RouterID}
    /\ tLast.facts.lists = "ok"

\* C28: removeRouterInterfaces returns (true, nil) whenever no remove-interface
\* call failed with an error other than not-found, so that every interface it
\* was entitled to remove is gone and only the user's interfaces of a foreign
\* router are left, for every shape of the router's ports.
C28_AllEntitledRemovedIsSuccess ==
    ( /\ RouterInterfacesListed
      /\ \A i \in RemoveCalls : tLast.calls[i].resp \in {"ok", "notfound"} )
    => tLast.result = TT

\* C29: one invocation of removeRouterInterfaces issues at most one
\* remove-interface call per subnet ID, and a remove-interface call that fails
\* with an error other than not-found is the last call, the invocation
\* returning (false, nil).
C29_OneRemovePerSubnet ==
    RouterInterfacesListed
    => /\ \A i, j \in RemoveCalls :
             tLast.calls[i].id = tLast.calls[j].id => i = j
       /\ \A i \in RemoveCalls :
             tLast.calls[i].resp = "error"
             => i = Len(tLast.calls) /\ tLast.result = FF

\* Two ports of a cluster router on subnet 21: one remove-interface call.
C29_Witness ==
    /\ RouterInterfacesListed
    /\ tLast.facts.Tags = {<<ClusterKey, "abc">>}
    /\ tLast.facts.ports = << RouterPort(31, << 21 >>), RouterPort(32, << 21 >>) >>
    /\ Cardinality(RemoveCalls) = 1
    /\ \E i \in RemoveCalls : tLast.calls[i] = Call("removeInterface", 21, "ok")

\* C30: an object-deletion unit stops issuing bulk-delete calls as soon as a
\* call reported an error, be it the call's err or an entry of resp.Errors: no
\* bulk-delete call follows such a call.
C30_NoCallAfterError ==
    [][bulkCalls' = bulkCalls + 1 =>
          /\ bulkResp.err = Nil
          /\ bulkResp.response.Errors = 0]_vars

\* The positions of the calls `op` for `id` among the calls of invocation p.
CallsAt(p, op, id) ==
    {i \in 1..Len(p.calls) : p.calls[i].op = op /\ p.calls[i].id = id}

\* The floating IPs bound to the VIP port of load balancer l when p started.
FIPsOfLB(p, l) == {f \in p.before.fips : f.PortID = l.VipPortID}

\* Invocation p found the network in use by the two load balancers of
\* cloud-provider-openstack and no call after the delete of the network failed.
TwoLeftoverLoadBalancers(p) ==
    /\ p.ran /\ p.before.net /\ p.calls # << >>
    /\ {l.ID : l \in p.before.lbs} = {51, 52}
    /\ \A i \in 2..Len(p.calls) : p.calls[i].resp = "ok"

\* C26: when the delete of the network fails because two load balancers of
\* cloud-provider-openstack are left on it, the invocation deletes the floating
\* IPs of each before the load balancer, both load balancers before the ports
\* left on the network, and returns (false, nil); the next invocation deletes
\* the network and returns (true, nil).
C26_LeftoverLoadBalancersThenPorts ==
    /\ TwoLeftoverLoadBalancers(nLast)
       => /\ nLast.calls[1] = Call("deleteNetwork", NetworkID, "conflict")
          /\ \A l \in nLast.before.lbs :
                /\ CallsAt(nLast, "deleteLB", l.ID) # {}
                /\ \A f \in FIPsOfLB(nLast, l) :
                      \E j \in CallsAt(nLast, "deleteFIP", f.ID) :
                         \A i \in CallsAt(nLast, "deleteLB", l.ID) : j < i
          /\ \A q \in nLast.before.ports :
                /\ CallsAt(nLast, "deletePort", q.ID) # {}
                /\ \A l \in nLast.before.lbs :
                      \A i \in CallsAt(nLast, "deleteLB", l.ID),
                         j \in CallsAt(nLast, "deletePort", q.ID) : i < j
          /\ nLast.result = FF
          /\ nState = [net |-> TRUE, lbs |-> {}, fips |-> {}, ports |-> {}]
    /\ TwoLeftoverLoadBalancers(nPrev) /\ nLast.ran /\ nLast.calls # << >>
       => /\ nLast.calls = << Call("deleteNetwork", NetworkID, "ok") >>
          /\ nLast.result = TT
          /\ ~nState.net

\* Both load balancers with their three floating IPs and two ports were
\* cleaned by the invocation before the last, and the last deleted the network.
C26_Witness ==
    /\ TwoLeftoverLoadBalancers(nPrev)
    /\ {f.ID : f \in nPrev.before.fips} = {71, 72, 73}
    /\ {q.ID : q \in nPrev.before.ports} = {61, 62}
    /\ nPrev.result = FF
    /\ nLast.ran /\ nLast.result = TT

\* C27: deleteLeftoverLoadBalancers deletes a load balancer only after the list
\* of the floating IPs of its VIP port succeeded and each of them was deleted or
\* found gone in the same invocation; when the list or a delete failed the
\* load balancer is not deleted; a load balancer whose description does not
\* start with "Kubernetes external service" gets no call, nor do its
\* floating IPs.
C27_LoadBalancerAfterItsFloatingIPs ==
    nLast.ran =>
       \A l \in nLast.before.lbs :
          LET dels == CallsAt(nLast, "deleteLB", l.ID)
              failed ==
                 \/ \E i \in CallsAt(nLast, "listFIPs", l.VipPortID) :
                       nLast.calls[i].resp = "error"
                 \/ \E f \in FIPsOfLB(nLast, l) :
                       \E i \in CallsAt(nLast, "deleteFIP", f.ID) :
                          nLast.calls[i].resp = "error"
          IN  /\ \A i \in dels :
                    /\ \E j \in CallsAt(nLast, "listFIPs", l.VipPortID) :
                          j < i /\ nLast.calls[j].resp = "ok"
                    /\ \A f \in FIPsOfLB(nLast, l) :
                          \E j \in CallsAt(nLast, "deleteFIP", f.ID) :
                             j < i /\ nLast.calls[j].resp \in {"ok", "notfound"}
              /\ failed => dels = {}
              /\ ~HasPrefix(l.Description, KubernetesPrefix)
                    => /\ dels = {}
                       /\ CallsAt(nLast, "listFIPs", l.VipPortID) = {}
                       /\ \A f \in FIPsOfLB(nLast, l) :
                             CallsAt(nLast, "deleteFIP", f.ID) = {}

\* Load balancer 52 deleted after its floating IPs 72 and 73, with the user's
\* load balancer 53 and its floating IP 74 on the same network.
C27_Witness ==
    /\ nLast.ran
    /\ {l.ID : l \in nLast.before.lbs} = {52, 53}
    /\ {f.ID : f \in nLast.before.fips} = {72, 73, 74}
    /\ \E i \in CallsAt(nLast, "deleteLB", 52) : nLast.calls[i].resp = "ok"
    /\ CallsAt(nLast, "deleteFIP", 72) # {} /\ CallsAt(nLast, "deleteFIP", 73) # {}

----------------------------------------------------------------------------
(* The workers of deletePorts: claims *)

\* The workers that hold a port: between the receive and the return to the
\* head of the loop.
Holding == {w \in DOMAIN wWorkers : wWorkers[w].pc \in {"fip", "sgRead", "sgDelete", "sgWrite", "delete"}}

\* The group the worker's loop over assignedSGs is at.
GroupAt(w) == wWorkers[w].port.SecurityGroups[wWorkers[w].i]

\* C21: while the workers of an invocation run, sgByID and fipByPort are never
\* written: no worker is at a write of sgByID, and so no worker reads or writes a
\* cache while another writes it.
C21_CachesNeverWritten ==
    /\ \A w \in DOMAIN wWorkers : wWorkers[w].pc # "sgWrite"
    /\ \A w1, w2 \in DOMAIN wWorkers :
          (w1 # w2 /\ wWorkers[w1].pc = "sgWrite")
             => wWorkers[w2].pc \notin {"sgRead", "sgWrite"}

\* The entity the worker's next provider call changes: the floating IP of its
\* port (and then the port), a security group, or the port and its trunk.
Target(w) ==
    CASE wWorkers[w].pc = "fip" -> << "port", wWorkers[w].port.ID >>
      [] wWorkers[w].pc = "sgDelete" -> << "group", GroupAt(w) >>
      [] wWorkers[w].pc = "delete" -> << "port", wWorkers[w].port.ID >>
      [] OTHER -> << "none", 0 >>

\* C22 as stated: no two workers are at a changing provider call for the same
\* entity at once, security groups included, and a port is received once.
C22_NoSharedTarget ==
    /\ \A id \in DOMAIN wStatus : wStatus[id].rcv <= 1
    /\ \A w1, w2 \in DOMAIN wWorkers :
          (w1 # w2 /\ Target(w1)[1] # "none") => Target(w1) # Target(w2)

\* C22: a port is received by one worker only, and no two workers are at a
\* changing provider call for the same port, floating IP or trunk at once; two
\* workers may be at the delete of one security group.
C22_OnlyGroupsShared ==
    /\ \A id \in DOMAIN wStatus : wStatus[id].rcv <= 1
    /\ \A w1, w2 \in Holding : w1 # w2 => wWorkers[w1].port.ID # wWorkers[w2].port.ID
    /\ \A w1, w2 \in DOMAIN wWorkers :
          (w1 # w2 /\ Target(w1)[1] # "none" /\ Target(w1) = Target(w2))
             => Target(w1)[1] = "group"

\* Two workers are at the delete of the group 11 while two others of their
\* calls, the deletes of their ports, are still to come.
C22_Witness ==
    \E w1, w2 \in DOMAIN wWorkers :
       /\ w1 # w2
       /\ Target(w1) = << "group", 11 >>
       /\ Target(w2) = << "group", 11 >>
       /\ wWorkers[w1].port.ID # wWorkers[w2].port.ID

\* The ports of the invocation whose delete succeeded.
DeletedPorts == {id \in DOMAIN wStatus : wStatus[id].del = "ok"}

NoOtherFailure ==
    \A id \in DOMAIN wStatus :
       /\ wStatus[id].fip # "error"
       /\ wStatus[id].del # "error"

C25_DeleteOnlyAfterDissociation ==
    \A id \in DOMAIN wStatus :
       /\ (id \in wCaches.fipByPort /\ (wStatus[id].detached \/ wStatus[id].tries > 0))
             => wStatus[id].fip \in {"ok", "notfound"}
       /\ wStatus[id].fip = "error" =>
             /\ ~wStatus[id].detached
             /\ wStatus[id].tries = 0
             /\ id \in wProvider.ports
             /\ \A w \in DOMAIN wWorkers : wWorkers[w].localDeleted <= Cardinality(DeletedPorts)
             /\ wMain.pc = "returned" => wMain.result = FF

\* The update for port 1 failed, the other port was deleted, and the invocation
\* returned.
C25_Witness ==
    /\ wMain.pc = "returned"
    /\ 1 \in DOMAIN wStatus
    /\ wStatus[1].fip = "error"
    /\ DeletedPorts # {}

----------------------------------------------------------------------------
(* The object-deletion queue of deleteContainers: claims *)

\* The errors the units have sent on errCh.
ErrorsSent == {u \in DOMAIN qUnits : qUnits[u].sent > 0}

\* C31: the delete of the container is issued only after every unit has ended,
\* and once a unit has sent an error the container is not deleted and the
\* invocation does not return (true, nil), whatever the order of the steps of
\* the units, the collector and deleteContainers.
C31_NoDeleteAfterUnitError ==
    /\ qMain.deleted => (Running = {} /\ qPages = 0)
    /\ ErrorsSent # {} =>
          /\ ~qMain.deleted
          /\ qMain.pc # "delete"
          /\ qMain.result # TT

\* C34: an invocation of deleteContainers that has not returned can always
\* take a step: some unit, the collector or deleteContainers itself is not
\* blocked.
C34_NeverDeadlocks ==
    qMain.pc \notin {"returned", "idle"} => ENABLED NextQueue

----------------------------------------------------------------------------
(* deleteRouters, deleteShares, deleteVolumes and the tasks that select by the
   cluster ID: claims *)

----------------------------------------------------------------------------
(* The barrier of Run: claims *)

\* The deleteRunner goroutines whose send on returnChannel was received.
SentOnce == {t \in Tasks : runner[t].pc = "done"}

\* C33: the barrier has received one value from each deleteRunner that is done
\* and none from the others; a deleteRunner is at its send or past it only
\* after its wrapper returned nil on a (true, nil) of its task; once Run is past
\* the barrier it has received as many values as tasks were launched and no
\* deleteRunner is left at its send.
C33_OneSignalPerTask ==
    /\ received = Cardinality(SentOnce)
    /\ \A t \in Tasks :
          runner[t].pc \in {"send", "done"} =>
             /\ runner[t].werr = Nil
             /\ runner[t].last = TT
    /\ (mainpc = "routers" \/ router.pc # "new") =>
          /\ received = Cardinality(Tasks)
          /\ SentOnce = Tasks

\* Run is past the barrier, about to call deleteRouterRunner.
C33_Witness ==
    /\ mainpc = "routers"
    /\ router.pc = "new"
    /\ received = Cardinality(Tasks)
    /\ SentOnce = Tasks

\* The tasks that select by the cluster ID inside a name or a description.
ClusterIDKinds == {"deleteServerGroups", "deleteVolumes", "deleteLoadBalancers"}

\* C35: with a filter that has no key equal to openshiftClusterID ignoring
\* case, so that the cluster ID is empty, deleteServerGroups, deleteVolumes and
\* deleteLoadBalancers make no delete call.
C35_EmptyClusterIDDeletesNothing ==
    (tLast.ran /\ tLast.kind \in ClusterIDKinds /\ ClusterIDOf(tFilter) = "") =>
       \A i \in 1..Len(tLast.calls) : tLast.calls[i].op # "delete"

----------------------------------------------------------------------------
(* deleteLeftoverLoadBalancers: claims *)

\* C36: when the network is in use and every load balancer on it whose
\* description starts with "Kubernetes external service" was deleted or found
\* gone by the invocation, the ports left on the network are cleaned up in the
\* same invocation, however many other load balancers were passed over.
C36_SkippedLoadBalancersDoNotCount ==
    (/\ nLast.ran
     /\ \E i \in 1..Len(nLast.calls) :
           nLast.calls[i] = Call("loadBalancerClient", NetworkID, "ok")
     /\ \A l \in nLast.before.lbs :
           HasPrefix(l.Description, KubernetesPrefix) =>
              \E i \in CallsAt(nLast, "deleteLB", l.ID) :
                 nLast.calls[i].resp \in {"ok", "notfound"})
    => \A q \in nLast.before.ports : CallsAt(nLast, "deletePort", q.ID) # {}

----------------------------------------------------------------------------
(* The channels of deletePorts: claims *)

\* The workers that sent their count.
Finished == {w \in Workers : wWorkers[w].pc = "done"}

\* Every worker sent one count at most, after portsChannel was closed and
\* emptied, and the collector returns after one count of every worker.
CountsInOrder ==
    /\ Len(wChannels.deleted) + wMain.got = Cardinality(Finished)
    /\ Finished # {} => wChannels.closed /\ wChannels.ports = << >>
    /\ wMain.pc = "returned" => wMain.got = NumWorkers /\ Finished = Workers

\* While deletePorts has not returned, and the runtime has not stopped the
\* process, the feeder, the collector or a worker can take a step.
NoneBlocked == wMain.pc \in {"feed", "collect"} => ENABLED NextWorkers

\* C37: the ports task ends for every number of ports: the feeder is never
\* blocked for ever, every worker sends exactly one count after the channel is
\* closed and emptied, and the collector receives one count of every worker;
\* in particular the process is not stopped before the collector has them.
C37_PortsTaskTerminates ==
    /\ wMain.pc # "fatal"
    /\ NoneBlocked
    /\ CountsInOrder

\* The same for the runs in which the runtime does not stop the process.
TerminatesUnlessStopped == NoneBlocked /\ CountsInOrder

----------------------------------------------------------------------------
(* deleteShares: claims *)

\* The share a snapshot of the model belongs to.
ShareOf(snapshotID) == snapshotID \div 10

\* The calls of the invocation that went wrong for a snapshot of a share: the
\* list of its snapshots, or the delete of one with an error other than not-found.
SnapshotFailures ==
    {j \in 1..Len(tLast.calls) :
        \/ tLast.calls[j] \in {Call("listSnapshots", s, "error") : s \in 1..4}
        \/ /\ tLast.calls[j].op = "deleteSnapshot"
           /\ tLast.calls[j].resp \notin {"ok", "notfound"}}

\* The share a call is about.
ShareAt(j) ==
    IF tLast.calls[j].op = "deleteSnapshot"
    THEN ShareOf(tLast.calls[j].id)
    ELSE tLast.calls[j].id

\* C38: deleteShares deletes a share only after its snapshots were listed and
\* every delete call for a snapshot of it, all made before, was answered with
\* success or not-found; and when a snapshot delete fails the invocation
\* returns (false, nil) with no delete call for that share and no call about
\* a later share.
C38_ShareAfterItsSnapshots ==
    (tLast.ran /\ tLast.kind = "deleteShares") =>
       /\ \A i \in 1..Len(tLast.calls) :
             tLast.calls[i].op = "delete" =>
                /\ \E j \in 1..(i - 1) :
                      tLast.calls[j] = Call("listSnapshots", tLast.calls[i].id, "ok")
                /\ \A j \in 1..Len(tLast.calls) :
                      (tLast.calls[j].op = "deleteSnapshot"
                         /\ ShareOf(tLast.calls[j].id) = tLast.calls[i].id)
                      => j < i /\ tLast.calls[j].resp \in {"ok", "notfound"}
       /\ \A j \in SnapshotFailures :
             /\ tLast.result = FF
             /\ \A i \in 1..Len(tLast.calls) :
                   /\ tLast.calls[i].op = "delete" => tLast.calls[i].id # ShareAt(j)
                   /\ i > j => ShareAt(i) = ShareAt(j)

\* The first share was deleted after its two snapshots, one of them found gone;
\* a snapshot of the second share could not be deleted.
C38_Witness ==
    /\ tLast.ran
    /\ tLast.kind = "deleteShares"
    /\ tLast.calls = << Call("listSnapshots", 1, "ok"),
                        Call("deleteSnapshot", 11, "notfound"),
                        Call("deleteSnapshot", 12, "ok"),
                        Call("delete", 1, "ok"),
                        Call("listSnapshots", 3, "ok"),
                        Call("deleteSnapshot", 31, "error"),
                        Call("deleteSnapshot", 32, "ok") >>
    /\ tLast.result = FF

----------------------------------------------------------------------------
(* cleanVIPsPorts: claims *)

\* The calls of the invocation that failed: any answer but success, and but
\* not-found to the update of the floating IP.
CleanFailures ==
    {j \in 1..Len(tLast.calls) :
        /\ tLast.calls[j].resp # "ok"
        /\ ~(tLast.calls[j].op = "updateFloatingIP" /\ tLast.calls[j].resp = "notfound")}

\* The groups of seq are the groups of all that are not in drop, in the order
\* of all.
KeptInOrder(seq, all, drop) ==
    /\ {seq[i] : i \in 1..Len(seq)} = {all[i] : i \in 1..Len(all)} \ drop
    /\ \A i, j \in 1..Len(seq) :
          i < j => \E k, l \in 1..Len(all) : k < l /\ all[k] = seq[i] /\ all[l] = seq[j]

\* C39: cleanVIPsPorts deletes no port; the groups it sets on a port are the
\* port's groups without the cluster's, in their order; the tag of a port is
\* removed only after the port update, and the update of its floating IP when
\* one is cached, succeeded (not-found counting as success for the floating
\* IP); a failed call is the last call, the return is (false, nil), and the
\* port of the call and the ports not reached keep their tag.
C39_CleanVIPsPortsKeepsPorts ==
    (tLast.ran /\ tLast.kind = "cleanVIPsPorts") =>
       /\ \A i \in 1..Len(tLast.calls) :
             tLast.calls[i].op \in {"updatePort", "updateFloatingIP", "deleteTag"}
       /\ tLast.calls # << >> =>
             KeptInOrder(tLast.facts.sgs, VIPsPortSecurityGroups,
                         {tLast.facts.clusterSGs[i] :
                             i \in 1..Len(tLast.facts.clusterSGs)})
       /\ \A i \in 1..Len(tLast.calls) :
             tLast.calls[i].op = "deleteTag" =>
                LET id == tLast.calls[i].id IN
                \/ i > 1 /\ tLast.calls[i - 1] = Call("updatePort", id, "ok")
                \/ /\ i > 2
                   /\ tLast.calls[i - 2] = Call("updatePort", id, "ok")
                   /\ tLast.calls[i - 1] \in
                         {Call("updateFloatingIP", id, a) : a \in {"ok", "notfound"}}
       /\ \A j \in CleanFailures :
             /\ j = Len(tLast.calls)
             /\ tLast.result = FF
             /\ \A id \in tLast.selected :
                   (\A i \in 1..(j - 1) : tLast.calls[i].id # id)
                   \/ id = tLast.calls[j].id
                   => \E r \in tWorld : r.ID = id

\* The first port was cleaned, its floating IP found gone; the floating IP of
\* the second could not be dissociated, and the second keeps its tag.
C39_Witness ==
    /\ tLast.ran
    /\ tLast.kind = "cleanVIPsPorts"
    /\ tLast.calls = << Call("updatePort", 1, "ok"),
                        Call("updateFloatingIP", 1, "notfound"),
                        Call("deleteTag", 1, "ok"),
                        Call("updatePort", 3, "ok"),
                        Call("updateFloatingIP", 3, "error") >>
    /\ tLast.facts.clusterSGs = << 12, 13 >>
    /\ tLast.facts.sgs = << 14 >>
    /\ {r.ID : r \in tWorld} = {3}

----------------------------------------------------------------------------
(* deleteVolumes: claims *)

\* The delete calls of the invocation for resource id.
DeleteCallsFor(id) ==
    {i \in 1..Len(tLast.calls) :
        tLast.calls[i].op = "delete" /\ tLast.calls[i].id = id}

\* C40: an invocation of deleteVolumes makes one delete call at most for a
\* volume, also for a volume whose name has the cluster ID as a prefix and
\* whose CSI metadata names the cluster.
C40_OneDeletePerVolume ==
    (tLast.ran /\ tLast.kind = "deleteVolumes") =>
       \A r \in tLast.world : Cardinality(DeleteCallsFor(r.ID)) <= 1

============================================================================
